---------------------------- MODULE Spec2Model ----------------------------
(***************************************************************************)
(* DBS help-centre pipeline: structural extraction (dbs_scraper.py) and    *)
(* chunking (dbs_ingest.py).                                               *)
(*                                                                         *)
(* Strings are run-length encoded: a string is a sequence of runs          *)
(* [c |-> character, n |-> count >= 1] in which adjacent runs hold         *)
(* different characters.  A string of 1000 characters is then a short      *)
(* sequence, so the program's size constants keep their real values.       *)
(***************************************************************************)
EXTENDS Integers, Sequences, FiniteSets, TLC

(***************************************************************************)
(* Python str primitives on run-length encoded strings                     *)
(***************************************************************************)

\* the characters matched by \s and removed by str.strip()
WS == {" ", "\n"}

\* the characters of the look-behind class [.!?]
SentenceEnd == {".", "!", "?"}

\* c * n
Rep(c, n) == IF n <= 0 THEN <<>> ELSE <<[c |-> c, n |-> n]>>

\* s + t
Cat(s, t) ==
    IF s = <<>> THEN t
    ELSE IF t = <<>> THEN s
    ELSE IF s[Len(s)].c = t[1].c
         THEN SubSeq(s, 1, Len(s) - 1)
                \o <<[c |-> t[1].c, n |-> s[Len(s)].n + t[1].n]>>
                \o Tail(t)
         ELSE s \o t

RECURSIVE Concat(_)
\* the strings of a sequence joined end to end
Concat(ss) == IF ss = <<>> THEN <<>> ELSE Cat(ss[1], Concat(Tail(ss)))

RECURSIVE Lit(_)
\* a string literal, given character by character
Lit(cs) == IF cs = <<>> THEN <<>> ELSE Cat(Rep(cs[1], 1), Lit(Tail(cs)))

RECURSIVE StrLen(_)
\* len(s): the run lengths summed, half by half
StrLen(s) ==
    IF s = <<>> THEN 0
    ELSE IF Len(s) = 1 THEN s[1].n
    ELSE StrLen(SubSeq(s, 1, Len(s) \div 2))
            + StrLen(SubSeq(s, Len(s) \div 2 + 1, Len(s)))

RECURSIVE LStrip(_)
LStrip(s) == IF s # <<>> /\ s[1].c \in WS THEN LStrip(Tail(s)) ELSE s

RECURSIVE RStrip(_)
RStrip(s) ==
    IF s # <<>> /\ s[Len(s)].c \in WS THEN RStrip(SubSeq(s, 1, Len(s) - 1)) ELSE s

\* s.strip()
Strip(s) == RStrip(LStrip(s))

RECURSIVE LastChars(_, _)
\* the last k characters of s, for 1 <= k <= len(s)
LastChars(s, k) ==
    LET last == s[Len(s)]
    IN  IF k <= 0 THEN <<>>
        ELSE IF last.n >= k THEN Rep(last.c, k)
        ELSE Cat(LastChars(SubSeq(s, 1, Len(s) - 1), k - last.n), <<last>>)

\* s[:k] for k >= 0: the runs that begin before character k, the last cut
FirstChars(s, k) ==
    LET before == [j \in 1..Len(s) |-> StrLen(SubSeq(s, 1, j - 1))]
        m == Cardinality({ j \in 1..Len(s) : before[j] < k })
    IN  [j \in 1..m |->
            IF before[j] + s[j].n > k
            THEN [c |-> s[j].c, n |-> k - before[j]]
            ELSE s[j]]

\* s[-k:] for k >= 0; s[-0:] is s[0:], the whole string
NegSlice(s, k) ==
    IF k = 0 \/ k >= StrLen(s) THEN s ELSE LastChars(s, k)

\* t in s
Contains(s, t) ==
    LET k == Len(t)
    IN  \/ k = 0
        \/ /\ k = 1
           /\ \E i \in 1..Len(s) : s[i].c = t[1].c /\ s[i].n >= t[1].n
        \/ /\ k >= 2
           /\ \E i \in 1..(Len(s) - k + 1) :
                /\ s[i].c = t[1].c /\ s[i].n >= t[1].n
                /\ \A j \in 2..(k - 1) : s[i + j - 1] = t[j]
                /\ s[i + k - 1].c = t[k].c /\ s[i + k - 1].n >= t[k].n

\* s.startswith(p)
StartsWith(s, p) ==
    LET k == Len(p)
    IN  \/ k = 0
        \/ /\ Len(s) >= k
           /\ \A j \in 1..(k - 1) : s[j] = p[j]
           /\ s[k].c = p[k].c
           /\ s[k].n >= p[k].n

\* s.endswith(c) for a single character c
EndsWithChar(s, c) == s # <<>> /\ s[Len(s)].c = c

RECURSIVE SkipWS(_, _)
\* the first run at or after i that is not whitespace
SkipWS(s, i) == IF i <= Len(s) /\ s[i].c \in WS THEN SkipWS(s, i + 1) ELSE i

\* re.sub(r"\s+", " ", s), from run i on: the first run of every stretch of
\* whitespace runs becomes one space, the other runs of the stretch go
Collapse(s, i) ==
    LET first == SelectSeq([k \in 1..Len(s) |-> k],
                           LAMBDA k : /\ k >= i
                                      /\ ~(/\ s[k].c \in WS
                                            /\ k > i
                                            /\ s[k - 1].c \in WS))
    IN  [j \in 1..Len(first) |->
            IF s[first[j]].c \in WS THEN [c |-> " ", n |-> 1]
            ELSE s[first[j]]]

\* clean_text: whitespace runs become one space, the ends are stripped
clean_text(t) == Strip(Collapse(t, 1))

RECURSIVE SplitFrom(_, _, _)
\* re.split(r"(?<=[.!?])\s+", s): cut at every whitespace run that follows
\* a sentence-ending character; cur is the piece read so far
SplitFrom(s, i, cur) ==
    IF i > Len(s) THEN <<cur>>
    ELSE IF s[i].c \in WS /\ i > 1 /\ s[i - 1].c \in SentenceEnd
         THEN <<cur>> \o SplitFrom(s, SkipWS(s, i), <<>>)
         ELSE SplitFrom(s, i + 1, cur \o <<s[i]>>)

SplitSentences(t) == SplitFrom(t, 1, <<>>)

Max(a, b) == IF a >= b THEN a ELSE b

(***************************************************************************)
(* dbs_ingest.py: configuration                                            *)
(***************************************************************************)

MAX_CHUNK_SIZE == 1000
CHUNK_OVERLAP == 150
MIN_CHUNK_SIZE == 50

(***************************************************************************)
(* State                                                                   *)
(***************************************************************************)

VARIABLES
    \* chunk_by_sentences: arguments, locals, position and return value
    text, max_size, overlap, sentences, si, chunks, current_chunk, cpc, result,
    \* create_langchain_docs_from_article: argument, locals and position
    article, docs, step_group, di, dpc,
    \* the call being made, and the argument and the return value of the
    \* call before it
    run, first_article, first_docs,
    \* extract_page_content: the document tree, the locals, the returned
    \* record and the position
    soup, title, main, steps, faq_pairs, sections, full_text, notes,
    page_data, epc,
    \* the document tree as it was passed to extract_page_content
    html,
    \* the knowledge base file; scrape_all and ingest: locals and position
    kb_exists, kb_file, all_urls, ui, responses, results, failed, stats,
    failures_file, spc, articles, all_docs, ai, vector_store, ipc

chunkVars == <<text, max_size, overlap, sentences, si, chunks, current_chunk,
               cpc, result>>

docVars == <<article, docs, step_group, di, dpc, run, first_article,
             first_docs>>

extractVars == <<soup, title, main, steps, faq_pairs, sections, full_text,
                 notes, page_data, epc, html>>

scrapeVars == <<all_urls, ui, responses, results, failed, stats,
                failures_file, spc>>

ingestVars == <<articles, all_docs, ai, vector_store, ipc>>

batchVars == <<kb_exists, kb_file, scrapeVars, ingestVars>>

vars == <<chunkVars, docVars, extractVars, batchVars>>

\* chunk_by_sentences is not running
ChunkIdle ==
    /\ text = <<>> /\ max_size = 0 /\ overlap = 0 /\ sentences = <<>>
    /\ si = 0 /\ chunks = <<>> /\ current_chunk = <<>> /\ cpc = "idle"
    /\ result = <<>>

\* create_langchain_docs_from_article is not running
DocsIdle ==
    /\ article = <<>> /\ docs = <<>> /\ step_group = <<>> /\ di = 0
    /\ dpc = "idle"
    /\ run = 0 /\ first_article = <<>> /\ first_docs = <<>>

\* extract_page_content is not running
ExtractIdle ==
    /\ soup = <<>> /\ title = <<>> /\ main = <<>> /\ steps = <<>>
    /\ faq_pairs = <<>> /\ sections = <<>> /\ full_text = <<>> /\ notes = <<>>
    /\ page_data = <<>> /\ epc = "idle" /\ html = <<>>

BatchIdle ==
    /\ kb_exists = FALSE /\ kb_file = <<>>
    /\ all_urls = <<>> /\ ui = 0 /\ responses = <<>> /\ results = <<>>
    /\ failed = <<>> /\ stats = <<>> /\ failures_file = <<>> /\ spc = "idle"
    /\ articles = <<>> /\ all_docs = <<>> /\ ai = 0 /\ vector_store = <<>>
    /\ ipc = "idle"

(***************************************************************************)
(* chunk_by_sentences (dbs_ingest.py 47-67)                                *)
(***************************************************************************)

\* line 57: the overflow test
OverflowTestNoSentence(cur, sentence, maxSize) ==
    StrLen(cur) > maxSize /\ cur # <<>>

Overflows(cur, sentence, maxSize) ==
    StrLen(cur) + StrLen(sentence) > maxSize /\ cur # <<>>

\* nothing carried into the next buffer
OverlapTextNone(cur, ov) == <<>>

\* line 59: the overlap carried into the next buffer
OverlapText(cur, ov) == IF StrLen(cur) > ov THEN NegSlice(cur, ov) ELSE cur

\* line 60: the buffer restarted after an overflow
SeedChunk(cur, sentence, ov) ==
    Cat(Cat(OverlapText(cur, ov), Rep(" ", 1)), sentence)

\* the joined buffer cut at the target size
AppendChunkCut(cur, sentence) ==
    FirstChars(Strip(Cat(Cat(cur, Rep(" ", 1)), sentence)), MAX_CHUNK_SIZE)

\* line 62: the sentence joined to the buffer
AppendChunk(cur, sentence) == Strip(Cat(Cat(cur, Rep(" ", 1)), sentence))

RECURSIVE PackLoop(_, _, _, _, _, _)
\* lines 53-62: the loop over the sentences from index i on
PackLoop(sents, i, chs, cur, maxSize, ov) ==
    IF i > Len(sents) THEN [chunks |-> chs, current_chunk |-> cur]
    ELSE LET sentence == Strip(sents[i])
         IN  IF sentence = <<>>
             THEN PackLoop(sents, i + 1, chs, cur, maxSize, ov)
             ELSE IF Overflows(cur, sentence, maxSize)
             THEN PackLoop(sents, i + 1, Append(chs, Strip(cur)),
                           SeedChunk(cur, sentence, ov), maxSize, ov)
             ELSE PackLoop(sents, i + 1, chs, AppendChunk(cur, sentence),
                           maxSize, ov)

\* lines 64-65: the last buffer is closed when it is not blank
CloseLast(chs, cur) ==
    IF Strip(cur) # <<>> THEN Append(chs, Strip(cur)) ELSE chs

IsBigEnoughAlways(c) == TRUE

IsBigEnough(c) == StrLen(c) >= MIN_CHUNK_SIZE

\* line 67: the post-filter
MinSizeFilter(chs) == SelectSeq(chs, IsBigEnough)

chunk_by_sentences(t, maxSize, ov) ==
    LET st == PackLoop(SplitSentences(t), 1, <<>>, <<>>, maxSize, ov)
    IN  MinSizeFilter(CloseLast(st.chunks, st.current_chunk))

(***************************************************************************)
(* Inputs of chunk_by_sentences                                            *)
(***************************************************************************)

MaxSentences == 3

\* a sentence of n characters: n - 1 letters c and a full stop
Sent(c, n) == Cat(Rep(c, n - 1), Rep(".", 1))

SentenceChoices ==
    { Sent("a", 10), Sent("b", 50), Sent("c", 500), Sent("d", 900),
      Sent("e", 1100),
      Cat(Cat(Rep("f", 20), Rep(" ", 1)), Cat(Rep("g", 28), Rep("?", 1))) }

\* (separator between sentences, text after the last sentence)
Layouts == { <<Rep(" ", 1), <<>> >>,
             <<Cat(Rep("\n", 1), Rep(" ", 1)), Rep(" ", 1)>> }

RECURSIVE Join(_, _)
Join(ss, sep) ==
    IF ss = <<>> THEN <<>>
    ELSE IF Len(ss) = 1 THEN ss[1]
    ELSE Cat(Cat(ss[1], sep), Join(Tail(ss), sep))

\* a sentence with a run of 146 spaces inside it, then a short sentence
GapTexts ==
    { Concat(<<Rep("x", 900), Rep(" ", 146), Sent("y", 4), Rep(" ", 1),
               Sent("z", 3)>>) }

Texts ==
    { Cat(Join(ss, lay[1]), lay[2]) :
        ss \in UNION { [1..n -> SentenceChoices] : n \in 1..MaxSentences },
        lay \in Layouts }
      \cup GapTexts

\* (max_size, overlap); the first pair is the defaults, and an overlap of 30
\* begins at the space inside the sentence of two words
PackParams ==
    { <<MAX_CHUNK_SIZE, CHUNK_OVERLAP>>, <<100, 50>>, <<100, 20>>, <<100, 30>>,
      <<100, 0>> }

InitChunk ==
    /\ BatchIdle
    /\ DocsIdle /\ ExtractIdle
    /\ text \in Texts
    /\ \E p \in PackParams : max_size = p[1] /\ overlap = p[2]
    /\ sentences = <<>>
    /\ si = 0
    /\ chunks = <<>>
    /\ current_chunk = <<>>
    /\ cpc = "split"
    /\ result = <<>>

\* line 49
Split ==
    /\ cpc = "split"
    /\ sentences' = SplitSentences(text)
    /\ si' = 1
    /\ cpc' = "loop"
    /\ UNCHANGED <<text, max_size, overlap, chunks, current_chunk, result>>
    /\ UNCHANGED <<docVars, extractVars, batchVars>>

\* lines 54-56: a blank piece is skipped
SkipBlank ==
    /\ cpc = "loop" /\ si <= Len(sentences)
    /\ Strip(sentences[si]) = <<>>
    /\ si' = si + 1
    /\ UNCHANGED <<text, max_size, overlap, sentences, chunks, current_chunk,
                   cpc, result>>
    /\ UNCHANGED <<docVars, extractVars, batchVars>>

\* lines 57-60: the buffer is closed and restarted with the overlap
CloseOnOverflow ==
    /\ cpc = "loop" /\ si <= Len(sentences)
    /\ LET sentence == Strip(sentences[si])
       IN  /\ sentence # <<>>
           /\ Overflows(current_chunk, sentence, max_size)
           /\ chunks' = Append(chunks, Strip(current_chunk))
           /\ current_chunk' = SeedChunk(current_chunk, sentence, overlap)
    /\ si' = si + 1
    /\ UNCHANGED <<text, max_size, overlap, sentences, cpc, result>>
    /\ UNCHANGED <<docVars, extractVars, batchVars>>

\* lines 61-62
AppendSentence ==
    /\ cpc = "loop" /\ si <= Len(sentences)
    /\ LET sentence == Strip(sentences[si])
       IN  /\ sentence # <<>>
           /\ ~Overflows(current_chunk, sentence, max_size)
           /\ current_chunk' = AppendChunk(current_chunk, sentence)
    /\ si' = si + 1
    /\ UNCHANGED <<text, max_size, overlap, sentences, chunks, cpc, result>>
    /\ UNCHANGED <<docVars, extractVars, batchVars>>

\* lines 64-67: the last buffer is closed, the short chunks are dropped
ReturnChunks ==
    /\ cpc = "loop" /\ si > Len(sentences)
    /\ chunks' = CloseLast(chunks, current_chunk)
    /\ result' = MinSizeFilter(chunks')
    /\ cpc' = "done"
    /\ UNCHANGED <<text, max_size, overlap, sentences, si, current_chunk>>
    /\ UNCHANGED <<docVars, extractVars, batchVars>>

NextChunk ==
    \/ Split
    \/ SkipBlank
    \/ CloseOnOverflow
    \/ AppendSentence
    \/ ReturnChunks

SpecChunk == InitChunk /\ [][NextChunk]_vars

(***************************************************************************)
(* create_langchain_docs_from_article (dbs_ingest.py 70-183)               *)
(***************************************************************************)

\* dict.get(k, default)
Get(d, k, default) == IF k \in DOMAIN d THEN d[k] ELSE default

Document(content, meta) == [page_content |-> content, metadata |-> meta]

\* lines 83-85
Title(a) == Get(a, "title", <<>>)
Category(a) == Get(a, "category", <<>>)
ContextPrefixTitleOnly(a) == Cat(Title(a), Lit(<<"\n">>))

context_prefix(a) ==
    Cat(Lit(<<"[">>),
        Cat(Category(a), Cat(Lit(<<"]", " ">>), Cat(Title(a), Lit(<<"\n">>)))))

\* the metadata every chunk carries
Meta(a, type) ==
    [url |-> a.url, title |-> Title(a), category |-> Category(a),
     chunk_type |-> type, source |-> a.url]

\* lines 89-90
FaqQ(faq) == Strip(Get(faq, "question", <<>>))
FaqA(faq) == Strip(Get(faq, "answer", <<>>))

\* line 91
FaqNoGuard(faq) == TRUE

FaqEmits(faq) == FaqQ(faq) # <<>> /\ FaqA(faq) # <<>>

\* lines 92-99
FaqDoc(a, faq) ==
    Document(
        Cat(context_prefix(a),
            Cat(Lit(<<"Q", ":", " ">>),
                Cat(FaqQ(faq), Cat(Lit(<<"\n", "A", ":", " ">>), FaqA(faq))))),
        [url |-> a.url, title |-> Title(a), category |-> Category(a),
         chunk_type |-> "faq", question |-> FaqQ(faq), source |-> a.url])

RECURSIVE FaqDocs(_, _)
\* lines 88-99, from pair i on
FaqDocs(a, i) ==
    LET pairs == Get(a, "faq_pairs", <<>>)
    IN  IF i > Len(pairs) THEN <<>>
        ELSE (IF FaqEmits(pairs[i]) THEN <<FaqDoc(a, pairs[i])>> ELSE <<>>)
                \o FaqDocs(a, i + 1)

StepHeader ==
    Lit(<<"H", "o", "w", " ", "t", "o", " ", "(", "s", "t", "e", "p", "-",
          "b", "y", "-", "s", "t", "e", "p", ")", ":", "\n">>)

ContinuedHeader ==
    Lit(<<"H", "o", "w", " ", "t", "o", " ", "(", "c", "o", "n", "t", "i",
          "n", "u", "e", "d", ")", ":", "\n">>)

\* the buffer alone against the target size
ShouldFlushBufferOnly(a, group, step) ==
    /\ StrLen(group) > MAX_CHUNK_SIZE
    /\ StrLen(group) > StrLen(context_prefix(a)) + 30

\* line 106
ShouldFlush(a, group, step) ==
    /\ StrLen(group) + StrLen(step) > MAX_CHUNK_SIZE
    /\ StrLen(group) > StrLen(context_prefix(a)) + 30

\* the last buffer measured without its "How to ..." line
FinalFlushBeyondHeaderLine(a, group) ==
    StrLen(Strip(group)) > StrLen(context_prefix(a)) + StrLen(StepHeader) + 30

\* line 118
FinalFlush(a, group) == StrLen(Strip(group)) > StrLen(context_prefix(a)) + 30

\* lines 107-114 and 119-126
StepsDoc(a, group) == Document(Strip(group), Meta(a, "steps"))

RECURSIVE StepFold(_, _, _)
\* lines 105-126, from step i on with the buffer group
StepFold(a, i, group) ==
    LET stepList == Get(a, "steps", <<>>)
    IN  IF i > Len(stepList)
        THEN IF FinalFlush(a, group) THEN <<StepsDoc(a, group)>> ELSE <<>>
        ELSE IF ShouldFlush(a, group, stepList[i])
        THEN <<StepsDoc(a, group)>>
                \o StepFold(a, i + 1,
                            Cat(Cat(context_prefix(a), ContinuedHeader),
                                Cat(stepList[i], Lit(<<"\n">>))))
        ELSE StepFold(a, i + 1, Cat(group, Cat(stepList[i], Lit(<<"\n">>))))

\* lines 102-126
StepsDocs(a) ==
    IF Get(a, "steps", <<>>) = <<>> THEN <<>>
    ELSE StepFold(a, 1, Cat(context_prefix(a), StepHeader))

\* line 135
section_text(a, section) ==
    Cat(context_prefix(a),
        Cat(Get(section, "heading", <<>>),
            Cat(Lit(<<"\n">>), Get(section, "content", <<>>))))

\* line 137
Fits(a, section) == StrLen(section_text(a, section)) <= MAX_CHUNK_SIZE

SectionMeta(a, section) ==
    [url |-> a.url, title |-> Title(a), category |-> Category(a),
     chunk_type |-> "section",
     section_heading |-> Get(section, "heading", <<>>), source |-> a.url]

\* lines 147-155
SplitSectionDocsOfWholeText(a, section) ==
    LET pieces == chunk_by_sentences(section_text(a, section),
                                     MAX_CHUNK_SIZE, CHUNK_OVERLAP)
    IN  [k \in 1..Len(pieces) |->
            Document(pieces[k], SectionMeta(a, section))]

SplitSectionDocsReversed(a, section) ==
    LET pieces == chunk_by_sentences(Get(section, "content", <<>>),
                                     MAX_CHUNK_SIZE, CHUNK_OVERLAP)
    IN  [k \in 1..Len(pieces) |->
            Document(Cat(context_prefix(a),
                         Cat(Get(section, "heading", <<>>),
                             Cat(Lit(<<"\n">>), pieces[Len(pieces) + 1 - k]))),
                     SectionMeta(a, section))]

SplitSectionDocs(a, section) ==
    LET pieces == chunk_by_sentences(Get(section, "content", <<>>),
                                     MAX_CHUNK_SIZE, CHUNK_OVERLAP)
    IN  [k \in 1..Len(pieces) |->
            Document(Cat(context_prefix(a),
                         Cat(Get(section, "heading", <<>>),
                             Cat(Lit(<<"\n">>), pieces[k]))),
                     SectionMeta(a, section))]

\* lines 130-155: the chunks of one section
SectionDocs(a, section) ==
    IF Get(section, "content", <<>>) = <<>> THEN <<>>
    ELSE IF Fits(a, section)
    THEN <<Document(section_text(a, section), SectionMeta(a, section))>>
    ELSE SplitSectionDocs(a, section)

RECURSIVE AllSectionDocs(_, _)
\* lines 129-155, from section i on
AllSectionDocs(a, i) ==
    LET secs == Get(a, "sections", <<>>)
    IN  IF i > Len(secs) THEN <<>>
        ELSE SectionDocs(a, secs[i]) \o AllSectionDocs(a, i + 1)

\* line 158
FallbackAlways(ds) == TRUE

FallbackApplies(ds) == ds = <<>>

\* lines 158-169: the fallback, given the chunks made so far
FallbackDocs(a, ds) ==
    LET fullText == Get(a, "full_text", <<>>)
        pieces == chunk_by_sentences(fullText, MAX_CHUNK_SIZE, CHUNK_OVERLAP)
    IN  IF FallbackApplies(ds) /\ fullText # <<>>
        THEN [k \in 1..Len(pieces) |->
                 Document(Cat(context_prefix(a), pieces[k]), Meta(a, "text"))]
        ELSE <<>>

\* line 173
NoteEmitsStrict(note) == StrLen(note) > MIN_CHUNK_SIZE

NoteEmitsFirstCallOnly(note) == StrLen(note) >= MIN_CHUNK_SIZE /\ run = 1

NoteEmits(note) == StrLen(note) >= MIN_CHUNK_SIZE

\* lines 174-181
NoteDoc(a, note) ==
    Document(Cat(context_prefix(a),
                 Cat(Lit(<<"I", "m", "p", "o", "r", "t", "a", "n", "t", ":",
                           " ">>), note)),
             Meta(a, "note"))

RECURSIVE NoteDocs(_, _)
\* lines 172-181, from note i on
NoteDocs(a, i) ==
    LET noteList == Get(a, "notes", <<>>)
    IN  IF i > Len(noteList) THEN <<>>
        ELSE (IF NoteEmits(noteList[i]) THEN <<NoteDoc(a, noteList[i])>> ELSE <<>>)
                \o NoteDocs(a, i + 1)

\* line 82: article["url"] raises KeyError when the key is absent
RaisesKeyError(a) == "url" \notin DOMAIN a

\* the whole function, for an article with a url
create_langchain_docs_from_article(a) ==
    LET structured == FaqDocs(a, 1) \o StepsDocs(a) \o AllSectionDocs(a, 1)
    IN  structured \o FallbackDocs(a, structured) \o NoteDocs(a, 1)

(***************************************************************************)
(* Inputs of create_langchain_docs_from_article: article records as the    *)
(* knowledge base file holds them                                          *)
(***************************************************************************)

MaxSteps == 2
MaxNotes == 1

\* all sequences over S of length at most n
SeqsUpTo(S, n) == UNION { [1..k -> S] : k \in 0..n }

\* d without the key k
WithoutKey(d, k) == [x \in DOMAIN d \ {k} |-> d[x]]

\* dbs_scraper.py 427: a key of ARTICLES
CategoryGuides == Lit(<<"G", "u", "i", "d", "e", "s">>)

TitleChoices == { <<>>, Rep("T", 10) }

Question(c) == Cat(Rep(c, 11), Rep("?", 1))

FaqGood == [question |-> Question("q"), answer |-> Sent("r", 2)]
FaqLong == [question |-> Question("k"), answer |-> Sent("s", 1200)]
FaqNoAnswer == [question |-> Question("j")]
FaqNoQuestion == [answer |-> Sent("p", 20)]

FaqLists == { <<>>, <<FaqNoAnswer, FaqNoQuestion>>, <<FaqLong, FaqGood>> }

StepText(digit, c, n) ==
    Cat(Lit(<<"S", "t", "e", "p", " ", digit>>),
        IF n = 0 THEN <<>> ELSE Cat(Rep(" ", 1), Rep(c, n)))

\* steps of 6, 40 and 990 characters
StepChoices ==
    { StepText("1", "x", 0), StepText("2", "x", 33), StepText("3", "y", 983) }

\* 26 characters with prefix and heading: emitted verbatim
SectionFit == [heading |-> Rep("H", 5), content |-> Sent("u", 20)]

\* 1042 characters of content: packed into pieces
SectionBig ==
    [heading |-> Rep("H", 5),
     content |-> Join(<<Sent("v", 500), Sent("w", 500), Sent("x", 40)>>,
                      Rep(" ", 1))]

\* a heading of 990 characters pushes 20 characters of content over the limit
SectionLongHeading == [heading |-> Rep("H", 990), content |-> Sent("z", 20)]

SectionBlank == [heading |-> Rep("H", 5), content |-> <<>>]

SectionLists ==
    { <<>>, <<SectionFit>>, <<SectionBig>>, <<SectionLongHeading>>,
      <<SectionBlank, SectionFit>>, <<SectionBig, SectionFit>> }

NoteChoices == { Rep("n", 49), Rep("m", 50) }

\* the lists of notes: the short ones, and one of two notes that both count
NoteLists ==
    SeqsUpTo(NoteChoices, MaxNotes) \cup { <<Rep("p", 60), Rep("m", 50)>> }

FullTextChoices ==
    { <<>>, Sent("f", 30),
      Join(<<Sent("h", 500), Sent("i", 600)>>, Rep(" ", 1)) }

UrlChoice == "https://www.dbs.com.sg/personal/support/guide-travel.html"

WellFormedArticles ==
    { [url |-> UrlChoice, title |-> t, category |-> CategoryGuides,
       full_text |-> ft, steps |-> st, faq_pairs |-> fq, sections |-> sc,
       notes |-> nt] :
        t \in TitleChoices, ft \in FullTextChoices,
        st \in SeqsUpTo(StepChoices, MaxSteps),
        fq \in FaqLists, sc \in SectionLists,
        nt \in NoteLists }

\* records that lack the url key
NoUrlArticles ==
    { WithoutKey(a, "url") :
        a \in { b \in WellFormedArticles :
                  b.steps = <<>> /\ b.sections = <<>> /\ b.notes = <<>> } }

Articles == WellFormedArticles \cup NoUrlArticles

InitDocs ==
    /\ BatchIdle
    /\ ChunkIdle /\ ExtractIdle
    /\ article \in Articles
    /\ docs = <<>>
    /\ step_group = <<>>
    /\ di = 0
    /\ dpc = "start"
    /\ run = 1
    /\ first_article = <<>>
    /\ first_docs = <<>>

\* lines 81-85
BeginDocs ==
    /\ dpc = "start" /\ ~RaisesKeyError(article)
    /\ dpc' = "faq" /\ di' = 1
    /\ UNCHANGED <<article, docs, step_group>>
    /\ UNCHANGED <<run, first_article, first_docs>>
    /\ UNCHANGED <<chunkVars, extractVars, batchVars>>

\* line 82: KeyError
RaiseKeyError ==
    /\ dpc = "start" /\ RaisesKeyError(article)
    /\ dpc' = "raised"
    /\ UNCHANGED <<article, docs, step_group, di>>
    /\ UNCHANGED <<run, first_article, first_docs>>
    /\ UNCHANGED <<chunkVars, extractVars, batchVars>>

\* lines 88-99: one FAQ pair
FaqPair ==
    /\ dpc = "faq" /\ di <= Len(Get(article, "faq_pairs", <<>>))
    /\ LET faq == Get(article, "faq_pairs", <<>>)[di]
       IN  docs' = IF FaqEmits(faq) THEN Append(docs, FaqDoc(article, faq))
                   ELSE docs
    /\ di' = di + 1
    /\ UNCHANGED <<article, step_group, dpc>>
    /\ UNCHANGED <<run, first_article, first_docs>>
    /\ UNCHANGED <<chunkVars, extractVars, batchVars>>

\* lines 102-104: the step buffer is started
StepsBegin ==
    /\ dpc = "faq" /\ di > Len(Get(article, "faq_pairs", <<>>))
    /\ step_group' = IF Get(article, "steps", <<>>) # <<>>
                     THEN Cat(context_prefix(article), StepHeader)
                     ELSE step_group
    /\ dpc' = "steps" /\ di' = 1
    /\ UNCHANGED <<article, docs>>
    /\ UNCHANGED <<run, first_article, first_docs>>
    /\ UNCHANGED <<chunkVars, extractVars, batchVars>>

\* lines 106-116: the buffer is flushed, then the step starts a new one
StepFlush ==
    /\ dpc = "steps" /\ di <= Len(Get(article, "steps", <<>>))
    /\ LET step == Get(article, "steps", <<>>)[di]
       IN  /\ ShouldFlush(article, step_group, step)
           /\ docs' = Append(docs, StepsDoc(article, step_group))
           /\ step_group' = Cat(Cat(context_prefix(article), ContinuedHeader),
                                Cat(step, Lit(<<"\n">>)))
    /\ di' = di + 1
    /\ UNCHANGED <<article, dpc>>
    /\ UNCHANGED <<run, first_article, first_docs>>
    /\ UNCHANGED <<chunkVars, extractVars, batchVars>>

\* lines 106, 116: the step joins the buffer
StepAppend ==
    /\ dpc = "steps" /\ di <= Len(Get(article, "steps", <<>>))
    /\ LET step == Get(article, "steps", <<>>)[di]
       IN  /\ ~ShouldFlush(article, step_group, step)
           /\ step_group' = Cat(step_group, Cat(step, Lit(<<"\n">>)))
    /\ di' = di + 1
    /\ UNCHANGED <<article, docs, dpc>>
    /\ UNCHANGED <<run, first_article, first_docs>>
    /\ UNCHANGED <<chunkVars, extractVars, batchVars>>

\* lines 118-126: the last buffer
StepsEnd ==
    /\ dpc = "steps" /\ di > Len(Get(article, "steps", <<>>))
    /\ docs' = IF Get(article, "steps", <<>>) # <<>>
                  /\ FinalFlush(article, step_group)
               THEN Append(docs, StepsDoc(article, step_group))
               ELSE docs
    /\ dpc' = "sections" /\ di' = 1
    /\ UNCHANGED <<article, step_group>>
    /\ UNCHANGED <<run, first_article, first_docs>>
    /\ UNCHANGED <<chunkVars, extractVars, batchVars>>

\* lines 129-155: one section
Section ==
    /\ dpc = "sections" /\ di <= Len(Get(article, "sections", <<>>))
    /\ docs' = docs \o SectionDocs(article, Get(article, "sections", <<>>)[di])
    /\ di' = di + 1
    /\ UNCHANGED <<article, step_group, dpc>>
    /\ UNCHANGED <<run, first_article, first_docs>>
    /\ UNCHANGED <<chunkVars, extractVars, batchVars>>

\* lines 157-169: the full-text fallback
Fallback ==
    /\ dpc = "sections" /\ di > Len(Get(article, "sections", <<>>))
    /\ docs' = docs \o FallbackDocs(article, docs)
    /\ dpc' = "notes" /\ di' = 1
    /\ UNCHANGED <<article, step_group>>
    /\ UNCHANGED <<run, first_article, first_docs>>
    /\ UNCHANGED <<chunkVars, extractVars, batchVars>>

\* lines 172-181: one note
Note ==
    /\ dpc = "notes" /\ di <= Len(Get(article, "notes", <<>>))
    /\ LET note == Get(article, "notes", <<>>)[di]
       IN  docs' = IF NoteEmits(note) THEN Append(docs, NoteDoc(article, note))
                   ELSE docs
    /\ di' = di + 1
    /\ UNCHANGED <<article, step_group, dpc>>
    /\ UNCHANGED <<run, first_article, first_docs>>
    /\ UNCHANGED <<chunkVars, extractVars, batchVars>>

\* line 183
ReturnDocs ==
    /\ dpc = "notes" /\ di > Len(Get(article, "notes", <<>>))
    /\ dpc' = "done"
    /\ UNCHANGED <<article, docs, step_group, di>>
    /\ UNCHANGED <<run, first_article, first_docs>>
    /\ UNCHANGED <<chunkVars, extractVars, batchVars>>

NextDocs ==
    \/ BeginDocs
    \/ RaiseKeyError
    \/ FaqPair
    \/ StepsBegin
    \/ StepFlush
    \/ StepAppend
    \/ StepsEnd
    \/ Section
    \/ Fallback
    \/ Note
    \/ ReturnDocs

SpecDocs == InitDocs /\ [][NextDocs]_vars

\* the function is called a second time on the same record
CallAgain ==
    /\ dpc = "done" /\ run = 1
    /\ first_article' = article
    /\ first_docs' = docs
    /\ run' = 2
    /\ docs' = <<>>
    /\ step_group' = <<>>
    /\ di' = 0
    /\ dpc' = "start"
    /\ UNCHANGED article
    /\ UNCHANGED <<chunkVars, extractVars, batchVars>>

NextDocsTwice ==
    \/ NextDocs
    \/ CallAgain

SpecDocsTwice == InitDocs /\ [][NextDocsTwice]_vars

\* the chunks of one type, in order
IsType(d, type) == d.metadata.chunk_type = type
OfType(ds, type) == SelectSeq(ds, LAMBDA d : IsType(d, type))

\* the steps taken one at a time build what the function returns
StepwiseAgrees ==
    dpc = "done" => docs = create_langchain_docs_from_article(article)

(***************************************************************************)
(* The parsed document (BeautifulSoup).  A node is a record with a tag     *)
(* name ("#text" for a string), a class and an id attribute, its children  *)
(* and, for a string, its text.  A node is named by its path: the child    *)
(* indexes from the document root.                                         *)
(***************************************************************************)

TextNode(t) == [tag |-> "#text", cls |-> "", id |-> "", kids |-> <<>>, text |-> t]

Elem(tag, cls, kids) ==
    [tag |-> tag, cls |-> cls, id |-> "", kids |-> kids, text |-> <<>>]

\* Python None, where a path is expected
None == <<0>>

RECURSIVE NodeAt(_, _)
NodeAt(n, path) ==
    IF path = <<>> THEN n ELSE NodeAt(n.kids[path[1]], Tail(path))

RECURSIVE get_text(_)
RECURSIVE TextOfKids(_, _)
\* Tag.get_text(): the strings below the node, in document order
get_text(n) == IF n.tag = "#text" THEN n.text ELSE TextOfKids(n.kids, 1)

TextOfKids(kids, i) ==
    IF i > Len(kids) THEN <<>>
    ELSE Cat(get_text(kids[i]), TextOfKids(kids, i + 1))

RECURSIVE PathsUnder(_, _)
RECURSIVE PathsFrom(_, _, _)
\* the paths of the descendants of node n (at path), in document order
PathsUnder(n, path) == PathsFrom(n, path, 1)

PathsFrom(n, path, i) ==
    IF i > Len(n.kids) THEN <<>>
    ELSE <<Append(path, i)>>
            \o PathsUnder(n.kids[i], Append(path, i))
            \o PathsFrom(n, path, i + 1)

\* find_all: the descendants of the node at path that satisfy P
FindAll(root, path, P(_)) ==
    SelectSeq(PathsUnder(NodeAt(root, path), path),
              LAMBDA q : P(NodeAt(root, q)))

\* find: the first of them, or None
Find(root, path, P(_)) ==
    LET all == FindAll(root, path, P) IN IF all = <<>> THEN None ELSE all[1]

\* element.parent
ParentOf(path) == SubSeq(path, 1, Len(path) - 1)

\* find_next_sibling(): the next element with the same parent, or None
find_next_sibling(root, path) ==
    IF path = <<>> \/ path = None THEN None
    ELSE LET par == ParentOf(path)
             kids == NodeAt(root, par).kids
             later == { j \in (path[Len(path)] + 1)..Len(kids) :
                          kids[j].tag # "#text" }
         IN  IF later = {} THEN None
             ELSE Append(par, CHOOSE j \in later : \A k \in later : j <= k)

RECURSIVE Prune(_, _)
RECURSIVE PruneKids(_, _, _)
\* the node after decompose() of every descendant whose tag is in tags
Prune(n, tags) == [n EXCEPT !.kids = PruneKids(n.kids, 1, tags)]

PruneKids(kids, i, tags) ==
    IF i > Len(kids) THEN <<>>
    ELSE (IF kids[i].tag \in tags THEN <<>> ELSE <<Prune(kids[i], tags)>>)
            \o PruneKids(kids, i + 1, tags)

RECURSIVE ReplaceAt(_, _, _)
\* the tree with the node at path replaced
ReplaceAt(n, path, new) ==
    IF path = <<>> THEN new
    ELSE [n EXCEPT !.kids[path[1]] = ReplaceAt(n.kids[path[1]], Tail(path), new)]

RECURSIVE RemoveAll(_, _)
\* s.replace(pat, ""), for a pattern of two or more runs
RemoveAll(s, pat) ==
    LET k == Len(pat)
        hit == /\ Len(s) >= k
               /\ s[1].c = pat[1].c /\ s[1].n >= pat[1].n
               /\ \A j \in 2..(k - 1) : s[j] = pat[j]
               /\ s[k].c = pat[k].c /\ s[k].n >= pat[k].n
    IN  IF s = <<>> THEN <<>>
        ELSE IF hit
        THEN Cat(Rep(s[1].c, s[1].n - pat[1].n),
                 RemoveAll(Cat(Rep(s[k].c, s[k].n - pat[k].n),
                               SubSeq(s, k + 1, Len(s))), pat))
        ELSE Cat(<<s[1]>>, RemoveAll(Tail(s), pat))

(***************************************************************************)
(* extract_page_content (dbs_scraper.py 451-547)                           *)
(***************************************************************************)

\* the class values of the documents that line 464 matches:
\* (article|content|main-body|ps3-revamp), anywhere, ignoring case
MainClasses == { "content", "article-info", "main-body" }

\* the id values that line 466 matches: (content|article)
MainIds == { "content", "article" }

\* the class values that line 532 matches: (note|important|tip|info|warning)
NoteClasses == { "note", "warning", "article-info", "tip" }

SiteSuffix ==
    Lit(<<" ", "|", " ", "D", "B", "S", " ", "S", "i", "n", "g", "a", "p",
          "o", "r", "e">>)

IsH1(n) == n.tag = "h1"
IsTitleTag(n) == n.tag = "title"
IsMainDiv(n) == n.tag = "div" /\ n.cls \in MainClasses
IsMainTag(n) == n.tag = "main"
IsMainIdDiv(n) == n.tag = "div" /\ n.id \in MainIds
IsBody(n) == n.tag = "body"

\* lines 455-460
TitleOf(sp) ==
    LET h1 == Find(sp, <<>>, IsH1)
        tt == Find(sp, <<>>, IsTitleTag)
    IN  IF h1 # None THEN clean_text(get_text(NodeAt(sp, h1)))
        ELSE IF tt # None
        THEN RemoveAll(clean_text(get_text(NodeAt(sp, tt))), SiteSuffix)
        ELSE <<>>

\* lines 463-468: the first that exists
MainOf(sp) ==
    LET byClass == Find(sp, <<>>, IsMainDiv)
        byTag == Find(sp, <<>>, IsMainTag)
        byId == Find(sp, <<>>, IsMainIdDiv)
    IN  IF byClass # None THEN byClass
        ELSE IF byTag # None THEN byTag
        ELSE IF byId # None THEN byId
        ELSE Find(sp, <<>>, IsBody)

Digits == { "0", "1", "2", "3", "4", "5", "6", "7", "8", "9" }

\* line 472: a string that matches ^Step \d+ ignoring case
IsStepString(n) ==
    /\ n.tag = "#text"
    /\ Len(n.text) >= 6
    /\ n.text[1].c \in {"S", "s"} /\ n.text[1].n = 1
    /\ n.text[2].c \in {"T", "t"} /\ n.text[2].n = 1
    /\ n.text[3].c \in {"E", "e"} /\ n.text[3].n = 1
    /\ n.text[4].c \in {"P", "p"} /\ n.text[4].n = 1
    /\ n.text[5].c = " " /\ n.text[5].n = 1
    /\ n.text[6].c \in Digits

RECURSIVE StepTexts(_, _, _)
\* lines 473-477, from step string i on
StepTexts(sp, els, i) ==
    IF i > Len(els) THEN <<>>
    ELSE LET step_text == clean_text(get_text(NodeAt(sp, ParentOf(els[i]))))
         IN  (IF step_text # <<>> /\ StrLen(step_text) > 5
              THEN <<step_text>> ELSE <<>>)
                \o StepTexts(sp, els, i + 1)

\* lines 471-477
StepsOf(sp) == StepTexts(sp, FindAll(sp, <<>>, IsStepString), 1)

\* lines 483, 490: text.endswith("?") and len(text) > 10
QuestionLike(t) == EndsWithChar(t, "?") /\ StrLen(t) > 10

\* a walk without the limit of fragments
FaqWalkNeverFull(parts) == FALSE

\* line 494
FaqWalkFull(parts) == Len(parts) >= 5

RECURSIVE AnswerParts(_, _, _)
\* lines 486-495: the walk over the siblings
AnswerParts(sp, sibling, parts) ==
    IF sibling = None \/ NodeAt(sp, sibling).tag \in {"h1", "h2", "h3", "h4"}
    THEN parts
    ELSE LET sib_text == clean_text(get_text(NodeAt(sp, sibling)))
         IN  IF sib_text = <<>> THEN parts
             ELSE IF QuestionLike(sib_text) THEN parts
             ELSE IF FaqWalkFull(Append(parts, sib_text))
             THEN Append(parts, sib_text)
             ELSE AnswerParts(sp, find_next_sibling(sp, sibling),
                              Append(parts, sib_text))

IsFaqCandidateTag(n) == n.tag \in {"strong", "b", "h3", "h4"}

RECURSIVE FaqPairsFrom(_, _, _)
\* lines 481-500, from candidate i on
FaqPairsFrom(sp, els, i) ==
    IF i > Len(els) THEN <<>>
    ELSE LET qtext == clean_text(get_text(NodeAt(sp, els[i])))
             \* line 485: the parent's next sibling (a Tag is always true)
             answer_parts ==
                 AnswerParts(sp, find_next_sibling(sp, ParentOf(els[i])), <<>>)
         IN  (IF QuestionLike(qtext) /\ answer_parts # <<>>
              THEN <<[question |-> qtext,
                      answer |-> Join(answer_parts, Rep(" ", 1))]>>
              ELSE <<>>)
                \o FaqPairsFrom(sp, els, i + 1)

\* lines 480-500
FaqPairsOf(sp) == FaqPairsFrom(sp, FindAll(sp, <<>>, IsFaqCandidateTag), 1)

\* lines 506-508
DenyList ==
    { Lit(<<"P", "o", "p", "u", "l", "a", "r", " ", "A", "r", "t", "i", "c",
            "l", "e", "s">>),
      Lit(<<"P", "o", "p", "u", "l", "a", "r", " ", "G", "u", "i", "d", "e",
            "s">>),
      Lit(<<"P", "o", "p", "u", "l", "a", "r", " ", "A", "r", "t", "i", "c",
            "l", "e">>) }

RECURSIVE ContentParts(_, _, _)
\* lines 512-516
ContentParts(sp, sibling, parts) ==
    IF sibling = None \/ NodeAt(sp, sibling).tag \in {"h2", "h3"} THEN parts
    ELSE LET t == clean_text(get_text(NodeAt(sp, sibling)))
         IN  ContentParts(sp, find_next_sibling(sp, sibling),
                          IF t # <<>> /\ StrLen(t) > 3 THEN Append(parts, t)
                          ELSE parts)

IsSectionHeading(n) == n.tag \in {"h2", "h3"}

RECURSIVE SectionsFrom(_, _, _)
\* lines 504-521, from heading i on
SectionsFrom(sp, els, i) ==
    IF i > Len(els) THEN <<>>
    ELSE LET heading_text == clean_text(get_text(NodeAt(sp, els[i])))
             content_parts ==
                 ContentParts(sp, find_next_sibling(sp, els[i]), <<>>)
         IN  (IF heading_text # <<>> /\ heading_text \notin DenyList
                 /\ content_parts # <<>>
              THEN <<[heading |-> heading_text,
                      content |-> Join(content_parts, Rep(" ", 1))]>>
              ELSE <<>>)
                \o SectionsFrom(sp, els, i + 1)

\* lines 503-521
SectionsOf(sp) == SectionsFrom(sp, FindAll(sp, <<>>, IsSectionHeading), 1)

Boilerplate == { "nav", "footer", "header", "script", "style", "noscript" }

\* lines 526-527: the document after the decompose() calls
Decomposed(sp, mainPath) ==
    IF mainPath = None THEN sp
    ELSE ReplaceAt(sp, mainPath, Prune(NodeAt(sp, mainPath), Boilerplate))

\* lines 524-528, on the document after the decompose() calls
FullTextOf(sp, mainPath) ==
    IF mainPath = None THEN <<>> ELSE clean_text(get_text(NodeAt(sp, mainPath)))

IsNoteElement(n) == n.tag # "#text" /\ n.cls \in NoteClasses

RECURSIVE NoteTexts(_, _, _)
\* lines 532-535, from element i on
NoteTexts(sp, els, i) ==
    IF i > Len(els) THEN <<>>
    ELSE LET note_text == clean_text(get_text(NodeAt(sp, els[i])))
         IN  (IF note_text # <<>> /\ StrLen(note_text) > 10
              THEN <<note_text>> ELSE <<>>)
                \o NoteTexts(sp, els, i + 1)

\* lines 531-535
NotesOf(sp) == NoteTexts(sp, FindAll(sp, <<>>, IsNoteElement), 1)

\* line 541: full_text[:15000]
Truncate(t) == FirstChars(t, 15000)

\* lines 537-547: the returned record (scraped_at, a timestamp, left out)
PageData(url, ttl, category, fullText, stepList, pairs, secs, noteList) ==
    [url |-> url, title |-> ttl, category |-> category,
     full_text |-> Truncate(fullText), steps |-> stepList,
     faq_pairs |-> pairs, sections |-> secs, notes |-> noteList]

\* extract_page_content as one function of the parsed page
extract_page_content(sp, url, category) ==
    LET d == Decomposed(sp, MainOf(sp))
    IN  PageData(url, TitleOf(sp), category, FullTextOf(d, MainOf(sp)),
                 StepsOf(sp), FaqPairsOf(sp), SectionsOf(sp), NotesOf(d))

(***************************************************************************)
(* The pages extract_page_content is run on.                               *)
(***************************************************************************)

MaxBlocks == 2

H1Messy ==
    Elem("h1", "", <<TextNode(Concat(<<Rep(" ", 2), Rep("R", 5), Rep("\n", 2),
                                       Rep("P", 3), Rep(" ", 1)>>))>>)

H2Plain == Elem("h2", "", <<TextNode(Rep("O", 8))>>)

H2Popular ==
    Elem("h2", "", <<TextNode(Cat(Rep("\n", 1),
        Lit(<<"P", "o", "p", "u", "l", "a", "r", " ", "A", "r", "t", "i", "c",
              "l", "e", "s">>)))>>)

H3Question == Elem("h3", "", <<TextNode(Cat(Rep("H", 11), Rep("?", 1)))>>)

\* a paragraph whose cleaned text has a space as its 15,000th character
PLong ==
    Elem("p", "", <<TextNode(Concat(<<Rep("a", 14999), Rep(" ", 2),
                                      Rep("b", 10)>>))>>)

PFaq ==
    Elem("p", "", <<Elem("strong", "",
                         <<TextNode(Cat(Rep("q", 11), Rep("?", 1)))>>)>>)

PPlain == Elem("p", "", <<TextNode(Cat(Rep("w", 20), Rep("\n", 1)))>>)

PBlank == Elem("p", "", <<TextNode(Rep(" ", 3))>>)

DivNote ==
    Elem("div", "note", <<TextNode(Concat(<<Rep(" ", 1), Rep("n", 6),
                                            Rep(" ", 3), Rep("n", 6)>>))>>)

NavWarning ==
    Elem("nav", "", <<Elem("div", "warning", <<TextNode(Rep("x", 12))>>)>>)

LiStep ==
    Elem("li", "",
         <<TextNode(Cat(Lit(<<"S", "t", "e", "p", " ", "1", ":", " ">>),
                        Rep("z", 5))),
           Elem("span", "", <<TextNode(Cat(Rep("\n", 1), Rep("y", 4)))>>)>>)

Blocks ==
    { H1Messy, H2Plain, H2Popular, H3Question, PLong, PFaq, PPlain, PBlank,
      DivNote, NavWarning, LiStep }

\* a paragraph of an answer
PAnswer(c) == Elem("p", "", <<TextNode(Cat(Rep(c, 12), Rep(" ", 1)))>>)

\* a question followed by six paragraphs, and a question whose answer is
\* ended by a heading, by a blank paragraph and by the next question
FaqWalkLists ==
    { <<PFaq, PAnswer("r"), PAnswer("s"), PAnswer("t"), PAnswer("u"),
        PAnswer("v"), PAnswer("w")>>,
      <<PFaq, PAnswer("r"), PAnswer("s"), H2Plain, PAnswer("t")>>,
      <<PFaq, PAnswer("r"), PBlank, PAnswer("s")>>,
      <<PFaq, PAnswer("r"), PFaq, PAnswer("s")>> }

BlockLists ==
    UNION { [1..n -> Blocks] : n \in 0..MaxBlocks } \cup FaqWalkLists

\* the text of the <title> element
TitleText ==
    Concat(<<Rep("\n", 1), Rep("P", 4), SiteSuffix, Rep(" ", 2)>>)

Heads ==
    { Elem("head", "", <<>>),
      Elem("head", "", <<Elem("title", "", <<TextNode(TitleText)>>)>>) }

\* the blocks directly in the body, or in a content division after a header
Bodies(blocks) ==
    { Elem("body", "", blocks),
      Elem("body", "",
           <<Elem("header", "", <<TextNode(Rep("k", 4))>>),
             Elem("div", "content", blocks)>>) }

Soups ==
    { Elem("[document]", "", <<Elem("html", "", <<h, b>>)>>) :
        h \in Heads, b \in UNION { Bodies(bl) : bl \in BlockLists } }

(***************************************************************************)
(* extract_page_content, part by part.                                     *)
(***************************************************************************)

InitExtract ==
    /\ BatchIdle
    /\ ChunkIdle
    /\ DocsIdle
    /\ soup \in Soups
    /\ html = soup
    /\ title = <<>> /\ main = None /\ steps = <<>> /\ faq_pairs = <<>>
    /\ sections = <<>> /\ full_text = <<>> /\ notes = <<>>
    /\ page_data = <<>>
    /\ epc = "title"

\* lines 455-460
ExtractTitle ==
    /\ epc = "title"
    /\ title' = TitleOf(soup)
    /\ epc' = "main"
    /\ UNCHANGED <<soup, main, steps, faq_pairs, sections, full_text, notes,
                   page_data>>
    /\ UNCHANGED html
    /\ UNCHANGED <<chunkVars, docVars, batchVars>>

\* lines 463-468
FindMain ==
    /\ epc = "main"
    /\ main' = MainOf(soup)
    /\ epc' = "steps"
    /\ UNCHANGED <<soup, title, steps, faq_pairs, sections, full_text, notes,
                   page_data>>
    /\ UNCHANGED html
    /\ UNCHANGED <<chunkVars, docVars, batchVars>>

\* lines 471-477
ExtractSteps ==
    /\ epc = "steps"
    /\ steps' = StepsOf(soup)
    /\ epc' = "faq"
    /\ UNCHANGED <<soup, title, main, faq_pairs, sections, full_text, notes,
                   page_data>>
    /\ UNCHANGED html
    /\ UNCHANGED <<chunkVars, docVars, batchVars>>

\* lines 480-500
ExtractFaq ==
    /\ epc = "faq"
    /\ faq_pairs' = FaqPairsOf(soup)
    /\ epc' = "sections"
    /\ UNCHANGED <<soup, title, main, steps, sections, full_text, notes,
                   page_data>>
    /\ UNCHANGED html
    /\ UNCHANGED <<chunkVars, docVars, batchVars>>

\* lines 503-521
ExtractSections ==
    /\ epc = "sections"
    /\ sections' = SectionsOf(soup)
    /\ epc' = "full_text"
    /\ UNCHANGED <<soup, title, main, steps, faq_pairs, full_text, notes,
                   page_data>>
    /\ UNCHANGED html
    /\ UNCHANGED <<chunkVars, docVars, batchVars>>

\* lines 524-528: the decompose() calls change the document
ExtractFullText ==
    /\ epc = "full_text"
    /\ soup' = Decomposed(soup, main)
    /\ full_text' = FullTextOf(soup', main)
    /\ epc' = "notes"
    /\ UNCHANGED <<title, main, steps, faq_pairs, sections, notes, page_data>>
    /\ UNCHANGED html
    /\ UNCHANGED <<chunkVars, docVars, batchVars>>

\* lines 531-535
ExtractNotes ==
    /\ epc = "notes"
    /\ notes' = NotesOf(soup)
    /\ epc' = "return"
    /\ UNCHANGED <<soup, title, main, steps, faq_pairs, sections, full_text,
                   page_data>>
    /\ UNCHANGED html
    /\ UNCHANGED <<chunkVars, docVars, batchVars>>

\* lines 537-547
ReturnPageData ==
    /\ epc = "return"
    /\ page_data' = PageData(UrlChoice, title, CategoryGuides, full_text,
                             steps, faq_pairs, sections, notes)
    /\ epc' = "done"
    /\ UNCHANGED <<soup, title, main, steps, faq_pairs, sections, full_text,
                   notes>>
    /\ UNCHANGED html
    /\ UNCHANGED <<chunkVars, docVars, batchVars>>

NextExtract ==
    \/ ExtractTitle
    \/ FindMain
    \/ ExtractSteps
    \/ ExtractFaq
    \/ ExtractSections
    \/ ExtractFullText
    \/ ExtractNotes
    \/ ReturnPageData

SpecExtract == InitExtract /\ [][NextExtract]_vars

(***************************************************************************)
(* The two batch loops: scrape_all (dbs_scraper.py 550-631) writes the     *)
(* knowledge base file, ingest (dbs_ingest.py 188-230) reads it.           *)
(***************************************************************************)

MaxArticles == 2

\* dbs_scraper.py 435: another key of the Guides list
UrlShopping == "https://www.dbs.com.sg/personal/support/guide-shopping.html"

\* lines 564-569, for the last two entries of ARTICLES (no URL of the table
\* occurs twice, so the deduplication keeps every entry)
AllUrls ==
    << [url |-> UrlShopping, category |-> CategoryGuides],
       [url |-> UrlChoice, category |-> CategoryGuides] >>

\* what a request can come back with (lines 581-587)
Responses == { "error", "not html", "html" }

SoupOf(blocks) ==
    Elem("[document]", "",
         <<Elem("html", "", <<Elem("head", "", <<>>),
                              Elem("body", "", blocks)>>)>>)

\* the pages a request can come back with
BatchSoups == { SoupOf(<<H1Messy, H2Plain, PPlain>>), SoupOf(<<PFaq, PPlain>>) }

RecordGood ==
    [url |-> UrlChoice, title |-> Rep("T", 10), category |-> CategoryGuides,
     full_text |-> Rep("x", 30), steps |-> <<>>, faq_pairs |-> <<FaqGood>>,
     sections |-> <<>>, notes |-> <<>>]

RecordNoUrl == WithoutKey(RecordGood, "url")

\* the knowledge base files ingest can find: none, or a JSON list of records
KbFiles == SeqsUpTo({ RecordGood, RecordNoUrl }, MaxArticles)

RECURSIVE CountCategory(_, _, _)
CountCategory(rs, cat, i) ==
    IF i > Len(rs) THEN 0
    ELSE (IF rs[i].category = cat THEN 1 ELSE 0) + CountCategory(rs, cat, i + 1)

\* lines 605-613
Stats(rs, fs) ==
    [total_articles |-> Len(rs), failed |-> Len(fs),
     categories |-> [cat \in { rs[i].category : i \in DOMAIN rs } |->
                        CountCategory(rs, cat, 1)]]

InitBatch ==
    /\ ChunkIdle /\ DocsIdle /\ ExtractIdle
    /\ kb_exists \in BOOLEAN
    /\ kb_file \in (IF kb_exists THEN KbFiles ELSE { <<>> })
    /\ all_urls = AllUrls
    /\ ui = 1
    /\ responses = <<>>
    /\ results = <<>>
    /\ failed = <<>>
    /\ stats = <<>>
    /\ failures_file = <<>>
    /\ spc = "loop"
    /\ articles = <<>>
    /\ all_docs = <<>>
    /\ ai = 0
    /\ vector_store = <<>>
    /\ ipc = "start"

\* lines 581-582, 594-596: the request raises a RequestException
ScrapeFail ==
    /\ spc = "loop" /\ ui <= Len(all_urls)
    /\ responses' = Append(responses, "error")
    /\ failed' = Append(failed, [url |-> all_urls[ui].url,
                                 category |-> all_urls[ui].category,
                                 error |-> "RequestException"])
    /\ ui' = ui + 1
    /\ UNCHANGED <<all_urls, results, stats, failures_file, spc>>
    /\ UNCHANGED <<kb_exists, kb_file, ingestVars>>
    /\ UNCHANGED <<chunkVars, docVars, extractVars>>

\* lines 584-587: the response is not HTML
ScrapeNotHtml ==
    /\ spc = "loop" /\ ui <= Len(all_urls)
    /\ responses' = Append(responses, "not html")
    /\ ui' = ui + 1
    /\ UNCHANGED <<all_urls, results, failed, stats, failures_file, spc>>
    /\ UNCHANGED <<kb_exists, kb_file, ingestVars>>
    /\ UNCHANGED <<chunkVars, docVars, extractVars>>

\* lines 589-591
ScrapeOk ==
    /\ spc = "loop" /\ ui <= Len(all_urls)
    /\ \E sp \in BatchSoups :
          results' = Append(results,
                            extract_page_content(sp, all_urls[ui].url,
                                                 all_urls[ui].category))
    /\ responses' = Append(responses, "html")
    /\ ui' = ui + 1
    /\ UNCHANGED <<all_urls, failed, stats, failures_file, spc>>
    /\ UNCHANGED <<kb_exists, kb_file, ingestVars>>
    /\ UNCHANGED <<chunkVars, docVars, extractVars>>

\* lines 600-621
ScrapeSave ==
    /\ spc = "loop" /\ ui > Len(all_urls)
    /\ kb_exists' = TRUE
    /\ kb_file' = results
    /\ stats' = Stats(results, failed)
    /\ failures_file' = (IF failed # <<>> THEN failed ELSE failures_file)
    /\ spc' = "done"
    /\ UNCHANGED <<all_urls, ui, responses, results, failed>>
    /\ UNCHANGED ingestVars
    /\ UNCHANGED <<chunkVars, docVars, extractVars>>

\* dbs_ingest.py 192-196
IngestNoKnowledgeBase ==
    /\ ipc = "start"
    /\ ~kb_exists
    /\ ipc' = "returned"
    /\ UNCHANGED <<articles, all_docs, ai, vector_store>>
    /\ UNCHANGED <<kb_exists, kb_file, scrapeVars>>
    /\ UNCHANGED <<chunkVars, docVars, extractVars>>

\* dbs_ingest.py 198-203
IngestLoad ==
    /\ ipc = "start"
    /\ kb_exists
    /\ articles' = kb_file
    /\ all_docs' = <<>>
    /\ ai' = 1
    /\ ipc' = "loop"
    /\ UNCHANGED vector_store
    /\ UNCHANGED <<kb_exists, kb_file, scrapeVars>>
    /\ UNCHANGED <<chunkVars, docVars, extractVars>>

\* dbs_ingest.py 204-205: one pass of the loop
IngestArticle ==
    /\ ipc = "loop" /\ ai <= Len(articles)
    /\ ~RaisesKeyError(articles[ai])
    /\ all_docs' = all_docs \o create_langchain_docs_from_article(articles[ai])
    /\ ai' = ai + 1
    /\ UNCHANGED <<articles, vector_store, ipc>>
    /\ UNCHANGED <<kb_exists, kb_file, scrapeVars>>
    /\ UNCHANGED <<chunkVars, docVars, extractVars>>

\* dbs_ingest.py 204-205 and 82: the KeyError leaves the loop and ingest
IngestKeyError ==
    /\ ipc = "loop" /\ ai <= Len(articles)
    /\ RaisesKeyError(articles[ai])
    /\ ipc' = "KeyError"
    /\ UNCHANGED <<articles, all_docs, ai, vector_store>>
    /\ UNCHANGED <<kb_exists, kb_file, scrapeVars>>
    /\ UNCHANGED <<chunkVars, docVars, extractVars>>

\* dbs_ingest.py 207-230
IngestStore ==
    /\ ipc = "loop" /\ ai > Len(articles)
    /\ vector_store' = all_docs
    /\ ipc' = "done"
    /\ UNCHANGED <<articles, all_docs, ai>>
    /\ UNCHANGED <<kb_exists, kb_file, scrapeVars>>
    /\ UNCHANGED <<chunkVars, docVars, extractVars>>

NextBatch ==
    \/ ScrapeFail
    \/ ScrapeNotHtml
    \/ ScrapeOk
    \/ ScrapeSave
    \/ IngestNoKnowledgeBase
    \/ IngestLoad
    \/ IngestArticle
    \/ IngestKeyError
    \/ IngestStore

SpecBatch == InitBatch /\ [][NextBatch]_vars

(***************************************************************************)
(* Properties of chunk_by_sentences                                        *)
(***************************************************************************)

\* the stripped, non-blank pieces the loop packs
PackedSentences ==
    { Strip(sentences[j]) : j \in { k \in 1..Len(sentences) : Strip(sentences[k]) # <<>> } }

RECURSIVE MaxLenOf(_)
MaxLenOf(S) ==
    IF S = {} THEN 0
    ELSE LET x == CHOOSE y \in S : TRUE
         IN  Max(StrLen(x), MaxLenOf(S \ {x}))

\* C1 as stated: every chunk returned before the last one is at most
\* max_size long, unless it holds a sentence that is itself longer than
\* max_size.
C1_NonFinalWithinMaxSize ==
    cpc = "done" =>
        \A i \in 1..(Len(result) - 1) :
            \/ StrLen(result[i]) <= max_size
            \/ \E s \in PackedSentences :
                    StrLen(s) > max_size /\ Contains(result[i], s)

\* C1 amended: with overlap >= 1, every chunk returned before the last one
\* is at most max(max_size + 1, overlap + 1 + L) long, L the length of the
\* longest sentence: the joining space is not counted by the overflow test,
\* and a buffer restarted after an overflow holds the overlap, a space and
\* the overflowing sentence without any test.
C1_NonFinalBound ==
    (cpc = "done" /\ overlap >= 1) =>
        \A i \in 1..(Len(result) - 1) :
            StrLen(result[i]) <=
                Max(max_size + 1, overlap + 1 + MaxLenOf(PackedSentences))

\* C1 witness: a chunk closed before the last one exceeds max_size although
\* no sentence does.
C1_Witness ==
    /\ cpc = "done" /\ overlap >= 1
    /\ Len(result) >= 2
    /\ StrLen(result[1]) > max_size
    /\ \A s \in PackedSentences : StrLen(s) <= max_size

\* C13: every chunk chunk_by_sentences returns is at least the minimum size
\* (50) long, and the returned chunks are the closed chunks without the
\* shorter ones, in order.
C13_MinSize ==
    cpc = "done" =>
        /\ \A i \in 1..Len(result) : StrLen(result[i]) >= 50
        /\ result = SelectSeq(chunks, LAMBDA c : StrLen(c) >= 50)

\* C13 witness: a chunk of fewer than 50 characters was closed by the loop
\* on an overflow and is not among the returned chunks, which are not empty.
C13_Witness ==
    /\ cpc = "done"
    /\ result # <<>>
    /\ Len(chunks) >= 2
    /\ StrLen(chunks[1]) < 50
    /\ \A i \in 1..Len(result) : result[i] # chunks[1]

\* C15: chunk_by_sentences never splits a sentence: every non-blank
\* sentence of the input occurs whole and contiguous in at least one chunk
\* the function closed, and a sentence longer than max_size occurs whole in
\* a returned chunk, which is then longer than max_size.
C15_NeverSplits ==
    cpc = "done" =>
        \A s \in PackedSentences :
            /\ \E i \in 1..Len(chunks) : Contains(chunks[i], s)
            /\ StrLen(s) > max_size =>
                   \E i \in 1..Len(result) :
                        /\ Contains(result[i], s)
                        /\ StrLen(result[i]) > max_size

\* C15 witness: a sentence longer than max_size came after an overflow, so
\* that it was placed behind the overlap of the chunk closed before it.
C15_Witness ==
    /\ cpc = "done"
    /\ Len(chunks) >= 2
    /\ overlap >= 1
    /\ \E s \in PackedSentences :
            /\ StrLen(s) > max_size
            /\ Contains(chunks[2], s)
            /\ ~Contains(chunks[1], s)

\* the trailing k characters of a closed chunk, the whole chunk when it is
\* not longer than k
Trailing(c, k) ==
    IF k <= 0 THEN <<>>
    ELSE IF StrLen(c) > k THEN LastChars(c, k) ELSE c

\* the loop closes the buffer on an overflow
ClosesOnOverflow ==
    /\ cpc = "loop" /\ cpc' = "loop"
    /\ Len(chunks') = Len(chunks) + 1

\* the loop joins a sentence to the buffer
JoinsSentence ==
    /\ cpc = "loop" /\ cpc' = "loop"
    /\ chunks' = chunks
    /\ current_chunk' # current_chunk

\* a step of the function closes a chunk
ClosesChunk == Len(chunks') = Len(chunks) + 1

\* the buffer restarted after an overflow is, up to outer whitespace, the
\* trailing overlap characters of the chunk just closed, a space and the
\* sentence that overflowed; a buffer is closed as it stands, stripped; and
\* a sentence joined later leaves the beginning of the buffer as it is
SeedsWithOverlap ==
    /\ ClosesOnOverflow =>
          Strip(current_chunk') =
              Strip(Cat(Cat(Trailing(chunks'[Len(chunks')], overlap),
                            Rep(" ", 1)),
                        Strip(sentences[si])))
    /\ ClosesChunk => chunks' = Append(chunks, Strip(current_chunk))
    /\ JoinsSentence =>
          current_chunk = <<>>
              \/ StartsWith(Strip(current_chunk'), Strip(current_chunk))

\* C19: whenever chunk_by_sentences closes a chunk because of an overflow,
\* the next chunk it closes starts with the trailing overlap characters of
\* the chunk just closed (the whole chunk when it is shorter), followed by
\* the sentence that overflowed.
C19_OverlapSeeding == [][SeedsWithOverlap]_vars

\* what holds instead: the same, for an overlap of at least one character
SeedingWithPositiveOverlap == [][overlap >= 1 => SeedsWithOverlap]_vars

\* with an overlap of 0 the restarted buffer begins with the whole chunk
\* just closed
ZeroOverlapRepeatsChunk ==
    /\ cpc = "loop"
    /\ overlap = 0
    /\ chunks # <<>>
    /\ StartsWith(current_chunk, chunks[Len(chunks)])
    /\ StrLen(current_chunk) > StrLen(chunks[Len(chunks)])

\* every sentence packed occurs whole in a returned chunk
AllSentencesReturned ==
    \A s \in PackedSentences : \E i \in 1..Len(result) : Contains(result[i], s)

\* no two whitespace characters follow each other in s
SingleSpaced(s) ==
    \A i \in 1..Len(s) :
        s[i].c \in WS =>
            /\ s[i].n = 1
            /\ i < Len(s) => s[i + 1].c \notin WS

\* C22 as stated: with an overlap of at least the minimum chunk size, the
\* post-filter loses no content: the returned list is empty, or every
\* non-blank sentence of the input occurs whole in at least one returned
\* chunk.
C22_FilterLosesNothing ==
    (cpc = "done" /\ overlap >= 50) =>
        result = <<>> \/ AllSentencesReturned

\* C22 amended: the same, for an input whose sentences hold no two
\* whitespace characters in a row (as in whitespace-normalized text).
C22_FilterLosesNothingSingleSpaced ==
    (/\ cpc = "done" /\ overlap >= 50
     /\ \A s \in PackedSentences : SingleSpaced(s)) =>
        result = <<>> \/ AllSentencesReturned

\* C22 witness: with an overlap of at least 50, a chunk shorter than 50 was
\* closed on an overflow and dropped, and its sentence is in the next chunk,
\* which was returned.
C22_Witness ==
    /\ cpc = "done" /\ overlap >= 50
    /\ \A s \in PackedSentences : SingleSpaced(s)
    /\ Len(chunks) >= 2
    /\ StrLen(chunks[1]) < 50
    /\ Len(result) < Len(chunks)
    /\ result # <<>>
    /\ StartsWith(result[1], chunks[1])
    /\ AllSentencesReturned

\* C22 witness of the loss: the last chunk, begun with an overlap that is
\* mostly whitespace, is shorter than 50 and was dropped with its sentence.
C22_WitnessLoss ==
    /\ cpc = "done" /\ overlap >= 50
    /\ result # <<>>
    /\ ~AllSentencesReturned

(***************************************************************************)
(* Properties of create_langchain_docs_from_article                        *)
(***************************************************************************)

RECURSIVE DropFirst(_, _)
\* s[k:] for k >= 0
DropFirst(s, k) ==
    IF k <= 0 \/ s = <<>> THEN s
    ELSE IF s[1].n > k THEN <<[c |-> s[1].c, n |-> s[1].n - k]>> \o Tail(s)
    ELSE DropFirst(Tail(s), k - s[1].n)

\* a chunk's content after the context prefix
Body(d) == DropFirst(d.page_content, StrLen(context_prefix(article)))

Structured(ds) ==
    SelectSeq(ds, LAMBDA d : d.metadata.chunk_type \in {"faq", "steps", "section"})

Returned == dpc = "done"

\* some chunk of the given type holds t after the prefix
HeldBy(type, t) ==
    \E k \in 1..Len(docs) : IsType(docs[k], type) /\ Contains(Body(docs[k]), t)

\* the non-blank sentences of a text
SentencesOf(t) ==
    LET ps == SplitSentences(t)
    IN  { Strip(ps[k]) : k \in { j \in 1..Len(ps) : Strip(ps[j]) # <<>> } }

\* C2 as stated: a text chunk is returned if and only if the FAQ, steps and
\* sections strategies produced no chunk.
C2_FallbackIff ==
    Returned => (OfType(docs, "text") # <<>> <=> Structured(docs) = <<>>)

\* C2 amended: a text chunk is returned if and only if the FAQ, steps and
\* sections strategies produced no chunk and sentence-packing of the
\* article's full text returns at least one piece.
C2_FallbackIffPacked ==
    Returned =>
        (OfType(docs, "text") # <<>>
            <=> /\ Structured(docs) = <<>>
                /\ chunk_by_sentences(Get(article, "full_text", <<>>),
                                      MAX_CHUNK_SIZE, CHUNK_OVERLAP) # <<>>)

\* C2 witness: the fallback ran and produced text chunks.
C2_Witness ==
    /\ Returned
    /\ Len(OfType(docs, "text")) >= 2
    /\ Structured(docs) = <<>>

\* C3: no returned sequence holds a text chunk together with a faq, steps
\* or section chunk, whatever the notes are.
C3_FallbackNotAdditive ==
    ~(OfType(docs, "text") # <<>> /\ Structured(docs) # <<>>)

\* C3 witness: text chunks are returned beside a note chunk, and nothing
\* structured.
C3_Witness ==
    /\ Returned
    /\ OfType(docs, "text") # <<>>
    /\ OfType(docs, "note") # <<>>
    /\ Len(docs) = Len(OfType(docs, "text")) + Len(OfType(docs, "note"))

NoStructure(a) ==
    /\ "url" \in DOMAIN a
    /\ Get(a, "steps", <<>>) = <<>>
    /\ Get(a, "faq_pairs", <<>>) = <<>>
    /\ Get(a, "sections", <<>>) = <<>>
    /\ StrLen(Get(a, "full_text", <<>>)) < MIN_CHUNK_SIZE

\* C7 as stated: an article with no steps, no FAQ pairs, no sections and a
\* full text that is absent or shorter than 50 returns no chunk, without
\* raising.
C7_EmptyArticleNoChunks ==
    NoStructure(article) => (dpc # "raised" /\ (Returned => docs = <<>>))

\* C7 amended: such an article that also has no note of 50 characters or
\* more returns no chunk, without raising.
C7_EmptyArticleNoChunksNoNotes ==
    (/\ NoStructure(article)
     /\ \A k \in 1..Len(Get(article, "notes", <<>>)) :
            StrLen(Get(article, "notes", <<>>)[k]) < MIN_CHUNK_SIZE)
        => (dpc # "raised" /\ (Returned => docs = <<>>))

\* C7 witness: a 30-character full text and a 49-character note, nothing
\* else, and the function has returned.
C7_Witness ==
    /\ Returned
    /\ NoStructure(article)
    /\ StrLen(Get(article, "full_text", <<>>)) = 30
    /\ Len(Get(article, "notes", <<>>)) = 1
    /\ StrLen(Get(article, "notes", <<>>)[1]) = 49
    /\ docs = <<>>

\* the content and metadata C8 gives the chunk of a FAQ pair
FaqChunkOf(pair) ==
    [page_content |->
        Concat(<<Lit(<<"[">>), Get(article, "category", <<>>),
                 Lit(<<"]", " ">>), Get(article, "title", <<>>),
                 Lit(<<"\n", "Q", ":", " ">>), Get(pair, "question", <<>>),
                 Lit(<<"\n", "A", ":", " ">>), Get(pair, "answer", <<>>)>>),
     question |-> Get(pair, "question", <<>>)]

FaqChunksSeen ==
    LET fs == OfType(docs, "faq")
    IN  [k \in 1..Len(fs) |->
            [page_content |-> fs[k].page_content,
             question |-> fs[k].metadata.question]]

SectionTextOf(sec, rest) ==
    Concat(<<Lit(<<"[">>), Get(article, "category", <<>>), Lit(<<"]", " ">>),
             Get(article, "title", <<>>), Lit(<<"\n">>),
             Get(sec, "heading", <<>>), Lit(<<"\n">>), rest>>)

\* the section chunk contents C9 expects of one section
SectionChunksOf(sec) ==
    LET content == Get(sec, "content", <<>>)
        pieces == chunk_by_sentences(content, MAX_CHUNK_SIZE, CHUNK_OVERLAP)
    IN  IF content = <<>> THEN <<>>
        ELSE IF StrLen(SectionTextOf(sec, content)) <= MAX_CHUNK_SIZE
        THEN <<SectionTextOf(sec, content)>>
        ELSE [k \in 1..Len(pieces) |-> SectionTextOf(sec, pieces[k])]

RECURSIVE SectionChunksFrom(_)
SectionChunksFrom(secs) ==
    IF secs = <<>> THEN <<>>
    ELSE SectionChunksOf(secs[1]) \o SectionChunksFrom(Tail(secs))

\* C9: the section chunks are, section by section, the text prefix +
\* heading + "\n" + content itself when it is within MAX_CHUNK_SIZE, and
\* otherwise one chunk prefix + heading + "\n" + piece for every piece of
\* the sentence-packing of the content alone.
C9_SectionChunks ==
    Returned =>
        LET ss == OfType(docs, "section")
        IN  /\ [k \in 1..Len(ss) |-> ss[k].page_content]
                  = SectionChunksFrom(Get(article, "sections", <<>>))
            /\ \A k \in 1..Len(ss) :
                  \E j \in 1..Len(Get(article, "sections", <<>>)) :
                      ss[k].metadata.section_heading
                          = Get(Get(article, "sections", <<>>)[j], "heading", <<>>)

\* C9 witness: a section too long to fit was packed into two chunks.
C9_Witness ==
    /\ Returned
    /\ Len(Get(article, "sections", <<>>)) = 1
    /\ StrLen(Get(article, "sections", <<>>)[1].content) > MAX_CHUNK_SIZE
    /\ Len(OfType(docs, "section")) = 2

\* C10: the note chunks are exactly prefix + "Important: " + note for the
\* notes of at least 50 characters, in order, whatever else was produced.
C10_NoteChunks ==
    Returned =>
        LET ns == OfType(docs, "note")
            kept == SelectSeq(Get(article, "notes", <<>>),
                              LAMBDA n : StrLen(n) >= 50)
        IN  [k \in 1..Len(ns) |-> ns[k].page_content]
              = [k \in 1..Len(kept) |->
                    Concat(<<Lit(<<"[">>), Get(article, "category", <<>>),
                             Lit(<<"]", " ">>), Get(article, "title", <<>>),
                             Lit(<<"\n", "I", "m", "p", "o", "r", "t", "a",
                                   "n", "t", ":", " ">>), kept[k]>>)]

\* C10 witness: a note of exactly 50 characters has its chunk after faq,
\* steps and section chunks.
C10_Witness ==
    /\ Returned
    /\ Len(OfType(docs, "note")) = 1
    /\ StrLen(Get(article, "notes", <<>>)[1]) = 50
    /\ OfType(docs, "faq") # <<>>
    /\ OfType(docs, "steps") # <<>>
    /\ OfType(docs, "section") # <<>>

\* the place of a chunk type in the order of the strategies
TypeRank(type) ==
    CASE type = "faq" -> 1
      [] type = "steps" -> 2
      [] type = "section" -> 3
      [] type = "text" -> 4
      [] type = "note" -> 5

RECURSIVE IsSubsequence(_, _)
\* xs is ys with some elements left out, the order kept
IsSubsequence(xs, ys) ==
    IF xs = <<>> THEN TRUE
    ELSE IF ys = <<>> THEN FALSE
    ELSE IF xs[1] = ys[1] THEN IsSubsequence(Tail(xs), Tail(ys))
    ELSE IsSubsequence(xs, Tail(ys))

RECURSIVE SplitLines(_, _, _)
\* s.split("\n") from run i on; cur is the line read so far
SplitLines(s, i, cur) ==
    IF i > Len(s) THEN <<cur>>
    ELSE IF s[i].c = "\n"
    THEN <<cur>> \o [k \in 1..(s[i].n - 1) |-> <<>>] \o SplitLines(s, i + 1, <<>>)
    ELSE SplitLines(s, i + 1, cur \o <<s[i]>>)

RECURSIVE Flatten(_)
Flatten(seqs) == IF seqs = <<>> THEN <<>> ELSE seqs[1] \o Flatten(Tail(seqs))

\* the step lines the steps chunks hold, chunk after chunk: the lines of
\* each chunk after its "How to ..." header line
StepLinesSeen ==
    LET ss == OfType(docs, "steps")
    IN  Flatten([k \in 1..Len(ss) |-> Tail(SplitLines(Body(ss[k]), 1, <<>>))])

IsPrefixOf(xs, ys) == Len(xs) <= Len(ys) /\ xs = SubSeq(ys, 1, Len(xs))

\* C11: in the returned sequence all faq chunks precede all steps chunks,
\* which precede all section chunks, which precede all text chunks, which
\* precede all note chunks; and within a type the chunks follow the order of
\* the items of the record: the questions of the faq chunks and the notes of
\* the note chunks are those of the record in its order, the step lines of
\* the steps chunks are the record's steps from the first on, the section
\* chunks go section by section and piece by piece, and the text chunks
\* piece by piece.
C11_EmissionOrder ==
    /\ \A i, j \in 1..Len(docs) :
          i < j => TypeRank(docs[i].metadata.chunk_type)
                      <= TypeRank(docs[j].metadata.chunk_type)
    /\ Returned =>
          /\ IsSubsequence(
                [k \in 1..Len(OfType(docs, "faq")) |->
                    OfType(docs, "faq")[k].metadata.question],
                [k \in 1..Len(Get(article, "faq_pairs", <<>>)) |->
                    Strip(Get(Get(article, "faq_pairs", <<>>)[k],
                              "question", <<>>))])
          /\ IsPrefixOf(StepLinesSeen, Get(article, "steps", <<>>))
          /\ [k \in 1..Len(OfType(docs, "section")) |->
                 OfType(docs, "section")[k].page_content]
                = SectionChunksFrom(Get(article, "sections", <<>>))
          /\ [k \in 1..Len(OfType(docs, "text")) |->
                 Body(OfType(docs, "text")[k])]
                = IF OfType(docs, "text") = <<>> THEN <<>>
                  ELSE chunk_by_sentences(Get(article, "full_text", <<>>),
                                          MAX_CHUNK_SIZE, CHUNK_OVERLAP)
          /\ IsSubsequence(
                [k \in 1..Len(OfType(docs, "note")) |->
                    DropFirst(Body(OfType(docs, "note")[k]), 11)],
                Get(article, "notes", <<>>))

\* C11 witness: two faq chunks, two steps chunks, three section chunks of
\* two sections and two note chunks were returned.
C11_Witness ==
    /\ Returned
    /\ Len(OfType(docs, "faq")) = 2
    /\ Len(OfType(docs, "steps")) = 2
    /\ Len(Get(article, "sections", <<>>)) = 2
    /\ Len(OfType(docs, "section")) = 3
    /\ Len(OfType(docs, "note")) = 2
    /\ OfType(docs, "note")[1] # OfType(docs, "note")[2]

\* "[category] title\n", from the record
PrefixOf(a) ==
    Concat(<<Lit(<<"[">>), Get(a, "category", <<>>), Lit(<<"]", " ">>),
             Get(a, "title", <<>>), Lit(<<"\n">>)>>)

\* C12: every chunk, of every type, has a content that is not empty and
\* begins with the context prefix "[category] title\n" of its article.
C12_ContentHasPrefix ==
    \A k \in 1..Len(docs) :
        /\ docs[k].page_content # <<>>
        /\ StartsWith(docs[k].page_content, PrefixOf(article))
        /\ StrLen(docs[k].page_content) > StrLen(PrefixOf(article))

\* C12 witness: chunks of the types faq, steps, section and note were
\* returned for an article with an empty title.
C12_Witness ==
    /\ Returned
    /\ Get(article, "title", <<>>) = <<>>
    /\ \A t \in {"faq", "steps", "section", "note"} : OfType(docs, t) # <<>>

\* C12 witness for the fallback: text chunks were returned
C12_WitnessText ==
    /\ Returned
    /\ OfType(docs, "text") # <<>>

StepList == Get(article, "steps", <<>>)

\* the header a step buffer begins with: the context prefix and the running
\* "How to ..." line
HeaderOf(group) ==
    IF StartsWith(group, Cat(context_prefix(article), StepHeader))
    THEN Cat(context_prefix(article), StepHeader)
    ELSE Cat(context_prefix(article), ContinuedHeader)

\* the number of characters of a step buffer after its header
BeyondHeader(group) == StrLen(group) - StrLen(HeaderOf(group))

\* a step of the fold over the steps is taken
FoldsStep == dpc = "steps" /\ di <= Len(StepList) /\ di' = di + 1

\* the buffer is flushed as one steps chunk and restarted with the
\* continuation header and the step
FlushesGroup ==
    /\ docs' = Append(docs, StepsDoc(article, step_group))
    /\ step_group' = Cat(Cat(context_prefix(article), ContinuedHeader),
                         Cat(StepList[di], Lit(<<"\n">>)))

\* the step is appended to the buffer and nothing is emitted
AppendsStep ==
    /\ docs' = docs
    /\ step_group' = Cat(step_group, Cat(StepList[di], Lit(<<"\n">>)))

\* C17 as stated: before a step is appended, the buffer is flushed and
\* restarted exactly when the buffer already exceeds MAX_CHUNK_SIZE (header
\* included) and its content beyond the header exceeds 30 characters;
\* otherwise the step is appended.
C17_FlushWhenBufferExceeds ==
    [][FoldsStep =>
          IF /\ StrLen(step_group) > 1000
             /\ BeyondHeader(step_group) > 30
          THEN FlushesGroup ELSE AppendsStep]_vars

\* C17 amended: the buffer is flushed and restarted exactly when the buffer
\* together with the step to append exceeds MAX_CHUNK_SIZE and the buffer is
\* more than 30 characters longer than the context prefix, the "How to ..."
\* line counted among the 30; otherwise the step is appended.
C17_FlushWhenStepWouldExceed ==
    [][FoldsStep =>
          IF /\ StrLen(step_group) + StrLen(StepList[di]) > 1000
             /\ StrLen(step_group) - StrLen(context_prefix(article)) > 30
          THEN FlushesGroup ELSE AppendsStep]_vars

\* C17 witness: during the fold a buffer of at most MAX_CHUNK_SIZE
\* characters has been flushed, and the buffer restarted with the
\* continuation header.
C17_Witness ==
    /\ dpc = "steps"
    /\ di = 3
    /\ OfType(docs, "steps") # <<>>
    /\ StrLen(OfType(docs, "steps")[1].page_content) <= 1000
    /\ StartsWith(step_group, Cat(context_prefix(article), ContinuedHeader))

\* C17 witness of the other branch: a step that made the buffer exceed
\* MAX_CHUNK_SIZE was appended, the buffer holding the header only.
C17_WitnessAppend ==
    /\ dpc = "steps"
    /\ di = 2
    /\ OfType(docs, "steps") = <<>>
    /\ StrLen(step_group) > 1000

\* the fold over the steps ends
EndsSteps ==
    /\ dpc = "steps" /\ di > Len(StepList) /\ StepList # <<>>
    /\ dpc' = "sections"

\* C18 as stated: after the last step the remaining buffer is emitted as a
\* steps chunk if and only if its content beyond the header (the context
\* prefix plus the running "How to ..." line) exceeds 30 characters.
C18_FinalFlushBeyondHeader ==
    [][EndsSteps =>
          IF StrLen(Strip(step_group)) - StrLen(HeaderOf(step_group)) > 30
          THEN docs' = Append(docs, StepsDoc(article, step_group))
          ELSE docs' = docs]_vars

\* C18 amended: the remaining buffer is emitted as a steps chunk if and only
\* if, stripped, it is more than 30 characters longer than the context
\* prefix, the "How to ..." line counted among the 30.
C18_FinalFlushBeyondPrefix ==
    [][EndsSteps =>
          IF StrLen(Strip(step_group)) - StrLen(context_prefix(article)) > 30
          THEN docs' = Append(docs, StepsDoc(article, step_group))
          ELSE docs' = docs]_vars

\* C18 witness: the last buffer was emitted with 30 characters or fewer
\* after its header.
C18_Witness ==
    /\ dpc = "sections" /\ di = 1
    /\ Len(StepList) = 2
    /\ docs # <<>>
    /\ docs[Len(docs)].metadata.chunk_type = "steps"
    /\ docs[Len(docs)].page_content = Strip(step_group)
    /\ StrLen(Strip(step_group)) - StrLen(HeaderOf(step_group)) <= 30

\* C18 witness of the other branch: a single short step, nothing emitted.
C18_WitnessDropped ==
    /\ dpc = "sections" /\ di = 1
    /\ Len(StepList) = 1
    /\ OfType(docs, "steps") = <<>>

\* the steps chunks emitted so far
StepsChunks == OfType(docs, "steps")

\* the lines of the k-th steps chunk after the context prefix: its header
\* line, then its step lines
LinesOfStepsChunk(k) == SplitLines(Body(StepsChunks[k]), 1, <<>>)

\* the header lines, as they read in a chunk
FirstHeaderLine ==
    Lit(<<"H", "o", "w", " ", "t", "o", " ", "(", "s", "t", "e", "p", "-",
          "b", "y", "-", "s", "t", "e", "p", ")", ":">>)

LaterHeaderLine ==
    Lit(<<"H", "o", "w", " ", "t", "o", " ", "(", "c", "o", "n", "t", "i",
          "n", "u", "e", "d", ")", ":">>)

\* the prefix, the first header line and all the steps of the record, one
\* per line, stripped: the only steps chunk when no flush comes in between
WholeStepsText ==
    Strip(Concat(<<PrefixOf(article), FirstHeaderLine, Lit(<<"\n">>)>>
                 \o [k \in 1..Len(StepList) |->
                        Cat(StepList[k], Lit(<<"\n">>))]))

\* what C21 says of every steps chunk: it holds at least one step line, the
\* step lines read chunk after chunk are the steps of the record from the
\* first on, each at most once, and the first chunk has the header
\* "How to (step-by-step):", every later one "How to (continued):"
StepsChunksKeepSteps ==
    /\ \A k \in 1..Len(StepsChunks) :
          /\ Len(LinesOfStepsChunk(k)) >= 2
          /\ LinesOfStepsChunk(k)[1] =
                IF k = 1 THEN FirstHeaderLine ELSE LaterHeaderLine
    /\ IsPrefixOf(StepLinesSeen, StepList)

\* C21 as stated: every steps chunk holds at least one step line, no step
\* is in more than one steps chunk, the step lines keep the order of the
\* steps, the first chunk has the header "How to (step-by-step):" and every
\* later one "How to (continued):"; and steps whose total, header included,
\* stays under MAX_CHUNK_SIZE yield exactly one steps chunk holding all of
\* them.
C21_StepsPreserved ==
    Returned =>
        /\ StepsChunksKeepSteps
        /\ (StepList # <<>> /\ StrLen(WholeStepsText) < 1000) =>
              /\ Len(StepsChunks) = 1
              /\ StepLinesSeen = StepList

\* C21 amended: the same of every steps chunk; and steps whose text with
\* prefix and header, stripped, is at most MAX_CHUNK_SIZE long and more
\* than 30 characters longer than the context prefix yield exactly one
\* steps chunk holding all of them, while steps whose text is at most 30
\* characters longer than the prefix yield no steps chunk.
C21_StepsPreservedWhenFlushed ==
    Returned =>
        /\ StepsChunksKeepSteps
        /\ (/\ StepList # <<>>
            /\ StrLen(WholeStepsText) <= 1000
            /\ StrLen(WholeStepsText) > StrLen(PrefixOf(article)) + 30) =>
              /\ Len(StepsChunks) = 1
              /\ StepsChunks[1].page_content = WholeStepsText
              /\ StepLinesSeen = StepList
        /\ (/\ StepList # <<>>
            /\ StrLen(WholeStepsText) <= StrLen(PrefixOf(article)) + 30) =>
              StepsChunks = <<>>

\* C21 witness: two steps of 40 characters were returned in one steps chunk
\* under the first header.
C21_Witness ==
    /\ Returned
    /\ Len(StepList) = 2
    /\ StrLen(StepList[1]) = 40 /\ StrLen(StepList[2]) = 40
    /\ Len(StepsChunks) = 1
    /\ LinesOfStepsChunk(1) = <<FirstHeaderLine>> \o StepList

\* C21 witness of two chunks: the second has the continuation header and
\* the second step.
C21_WitnessContinued ==
    /\ Returned
    /\ Len(StepsChunks) = 2
    /\ LinesOfStepsChunk(2) = <<LaterHeaderLine, StepList[2]>>

\* C21 witness of the steps that yield no chunk: one step of 6 characters.
C21_WitnessNoChunk ==
    /\ Returned
    /\ Len(StepList) = 1
    /\ StrLen(WholeStepsText) < 1000
    /\ StepsChunks = <<>>

(***************************************************************************)
(* Properties of extract_page_content                                      *)
(***************************************************************************)

\* no run of two or more whitespace characters, none leading, none trailing
Normalized(t) ==
    /\ \A k \in 1..Len(t) :
          t[k].c \in WS =>
             /\ t[k].n = 1
             /\ k > 1 /\ k < Len(t)
             /\ t[k + 1].c \notin WS

Extracted == epc = "done"

\* C6: every text field of the record extract_page_content returns (title,
\* full_text after its truncation to 15,000 characters, each step, each FAQ
\* question and answer, each section heading and content, each note) is
\* whitespace-normalized.
C6_AllFieldsNormalized ==
    Extracted =>
       /\ Normalized(page_data.title)
       /\ Normalized(page_data.full_text)
       /\ \A i \in DOMAIN page_data.steps : Normalized(page_data.steps[i])
       /\ \A i \in DOMAIN page_data.faq_pairs :
             /\ Normalized(page_data.faq_pairs[i].question)
             /\ Normalized(page_data.faq_pairs[i].answer)
       /\ \A i \in DOMAIN page_data.sections :
             /\ Normalized(page_data.sections[i].heading)
             /\ Normalized(page_data.sections[i].content)
       /\ \A i \in DOMAIN page_data.notes : Normalized(page_data.notes[i])

\* the fields other than full_text are normalized; full_text is before its
\* truncation
C6_NormalizedBeforeTruncation ==
    Extracted =>
       /\ Normalized(page_data.title)
       /\ Normalized(full_text)
       /\ \A i \in DOMAIN page_data.steps : Normalized(page_data.steps[i])
       /\ \A i \in DOMAIN page_data.faq_pairs :
             /\ Normalized(page_data.faq_pairs[i].question)
             /\ Normalized(page_data.faq_pairs[i].answer)
       /\ \A i \in DOMAIN page_data.sections :
             /\ Normalized(page_data.sections[i].heading)
             /\ Normalized(page_data.sections[i].content)
       /\ \A i \in DOMAIN page_data.notes : Normalized(page_data.notes[i])

\* the one-function form and the part-by-part form agree
ExtractAgrees ==
    Extracted =>
       \E sp \in Soups :
          page_data = extract_page_content(sp, UrlChoice, CategoryGuides)

\* C16: the notes of the returned record are, in document order, the
\* normalized texts longer than 10 characters of the elements of the
\* document tree passed in whose class matches the note pattern, whatever
\* the full-text extraction removed before the notes were collected.
C16_NotesOfInputTree ==
    Extracted => page_data.notes = NotesOf(html)

\* what the code does instead: the notes are those of the tree left by the
\* decompose() calls of the full-text extraction
NotesOfDecomposedTree ==
    Extracted => page_data.notes = NotesOf(Decomposed(html, MainOf(html)))

\* an element matching the note pattern, with a text of more than 10
\* characters, that the full-text extraction removed
NoteLost ==
    /\ Extracted
    /\ NotesOf(html) # <<>>
    /\ page_data.notes = <<>>

\* the elements after the one at path under the same parent, in order
SiblingsAfter(sp, path) ==
    IF path = <<>> \/ path = None THEN <<>>
    ELSE LET kids == NodeAt(sp, ParentOf(path)).kids
             later == SelectSeq([k \in 1..Len(kids) |-> k],
                                LAMBDA k : /\ k > path[Len(path)]
                                           /\ kids[k].tag # "#text")
         IN  [k \in 1..Len(later) |-> Append(ParentOf(path), later[k])]

\* the walk ends at this sibling: a heading, no text, or a question
EndsWalk(sp, path) ==
    LET t == clean_text(get_text(NodeAt(sp, path)))
    IN  \/ NodeAt(sp, path).tag \in {"h1", "h2", "h3", "h4"}
        \/ t = <<>>
        \/ EndsWithChar(t, "?") /\ StrLen(t) > 10

\* the fragments of the walk over the siblings after the element at path:
\* the texts of the siblings before the first that ends the walk, five at
\* most
Fragments(sp, path) ==
    LET sibs == SiblingsAfter(sp, path)
        open == { k \in 1..Len(sibs) :
                    \A j \in 1..k : ~EndsWalk(sp, sibs[j]) }
        n == IF Cardinality(open) > 5 THEN 5 ELSE Cardinality(open)
    IN  [k \in 1..n |-> clean_text(get_text(NodeAt(sp, sibs[k])))]

\* the candidate questions of a page, in document order
Questions(sp) ==
    SelectSeq(FindAll(sp, <<>>, IsFaqCandidateTag),
              LAMBDA q : LET t == clean_text(get_text(NodeAt(sp, q)))
                         IN  EndsWithChar(t, "?") /\ StrLen(t) > 10)

\* the element a question's walk is taken from: the question itself, or
\* its parent
WalkFrom(q, fromParent) == IF fromParent THEN ParentOf(q) ELSE q

\* the pairs of the questions whose walk collected a fragment
WalkedPairs(sp, fromParent) ==
    LET answered == SelectSeq(Questions(sp),
                        LAMBDA q : Fragments(sp, WalkFrom(q, fromParent)) # <<>>)
    IN  [k \in 1..Len(answered) |->
            [question |-> clean_text(get_text(NodeAt(sp, answered[k]))),
             answer |-> Join(Fragments(sp, WalkFrom(answered[k], fromParent)),
                             Rep(" ", 1))]]

\* C20 as stated: the answer of every candidate question is built by walking
\* the siblings after the question in order, up to the first heading,
\* sibling without text or question-like sibling, or five fragments; a pair
\* is emitted for the questions with at least one fragment, and for no
\* other.
C20_WalkOverSiblings ==
    Extracted => page_data.faq_pairs = WalkedPairs(html, FALSE)

\* C20 amended: the walk is over the siblings after the question's parent
\* element; it ends at the first heading, sibling without text or
\* question-like sibling, or with five fragments, so that every emitted
\* answer is made of one to five fragments, none of them empty or
\* question-like, and a question without a fragment emits no pair.
C20_WalkOverParentSiblings ==
    Extracted =>
        /\ page_data.faq_pairs = WalkedPairs(html, TRUE)
        /\ \A k \in 1..Len(Questions(html)) :
              LET parts == Fragments(html, ParentOf(Questions(html)[k]))
              IN  /\ Len(parts) <= 5
                  /\ \A j \in 1..Len(parts) :
                        /\ parts[j] # <<>>
                        /\ ~(EndsWithChar(parts[j], "?") /\ StrLen(parts[j]) > 10)
        /\ Len(page_data.faq_pairs) <= Len(Questions(html))
        /\ \A k \in 1..Len(page_data.faq_pairs) :
              page_data.faq_pairs[k].answer # <<>>

\* C20 witness: a question followed by six paragraphs was given an answer
\* of the first five.
C20_Witness ==
    /\ Extracted
    /\ Len(page_data.faq_pairs) = 1
    /\ \E k \in 1..Len(Questions(html)) :
          LET from == ParentOf(Questions(html)[k])
          IN  /\ Len(SiblingsAfter(html, from)) = 6
              /\ Len(Fragments(html, from)) = 5
              /\ page_data.faq_pairs[1].answer =
                    Join(Fragments(html, from), Rep(" ", 1))

\* C20 witness of a question with no fragment: no pair is emitted.
C20_WitnessNoPair ==
    /\ Extracted
    /\ Questions(html) # <<>>
    /\ page_data.faq_pairs = <<>>

(***************************************************************************)
(* Properties of the batch loops                                           *)
(***************************************************************************)

\* scrape_all: a failed request is recorded in failed, its URL has no
\* record in results, and the loop goes on to the last URL
ScrapeIsolation ==
    /\ Len(responses) = ui - 1
    /\ \A i \in DOMAIN responses :
          responses[i] = "error" =>
             /\ \E k \in DOMAIN failed : failed[k].url = all_urls[i].url
             /\ \A k \in DOMAIN results : results[k].url # all_urls[i].url
    /\ spc = "done" => Len(responses) = Len(all_urls)

\* ingest has ended, by its return after storing or by an exception
IngestEnded == ipc \in {"done", "KeyError"}

SetOf(seq) == { seq[k] : k \in DOMAIN seq }

\* ingest: when it ends the loop has passed the last record, and the chunks
\* of every record that can be chunked are stored
IngestIsolation ==
    IngestEnded =>
       /\ ai = Len(articles) + 1
       /\ \A i \in DOMAIN articles :
             ~RaisesKeyError(articles[i]) =>
                SetOf(create_langchain_docs_from_article(articles[i]))
                   \subseteq SetOf(vector_store)

\* C5: in the batch loops (scrape_all over URLs, ingest over records) a
\* failure of extraction or chunking for one article does not abort the
\* batch: the failure is recorded, the article is skipped and every later
\* article is still processed.
C5_BatchIsolation == ScrapeIsolation /\ IngestIsolation

====
